---- MODULE Spec2Model ----
(***************************************************************************)
(* The orchestration loop of src/agent.ts (runScenarios, runTurn,          *)
(* executeCall) driving the protocol client of src/lib/a2a-client.ts       *)
(* (rpc, send, extractData).  The inference provider and the transport     *)
(* (fetch) are the environment: their answers are drawn from small sets.   *)
(* Spec is the loop; ClientSpec is the client called directly (sendText,   *)
(* send, getTask, cancelTask on two instances); ExtractSpec applies        *)
(* extractText and extractData to one task.                                *)
(***************************************************************************)
EXTENDS Integers, Sequences, FiniteSets, TLC

\* ------------------------------------------------------------- bounds ----
\* inference calls made plus content blocks received during one run of main
MaxWork == 4
\* calls a caller makes on the client instances it holds
MaxCalls == 2
\* decorated operations one run of the spinner harness goes through
MaxSpins == 3

\* -------------------------------------------------------- JSON values ----
\* A JSON value is a tagged record; an object carries a function from its
\* keys to JSON values, so an absent key is a key outside DOMAIN.
Null == [t |-> "null"]
Str(s) == [t |-> "string", s |-> s]
Obj(f) == [t |-> "object", f |-> f]
EmptyObject == [t |-> "object", f |-> [k \in {} |-> Null]]
Num(n) == [t |-> "number", n |-> n]
Bool(b) == [t |-> "boolean", b |-> b]
Arr(a) == [t |-> "array", a |-> a]

\* A text is either a JSON document, carried as the value it denotes, or a
\* string that is not JSON.  JSON.stringify always produces the former;
\* JSON.parse fails on the latter.
\* JavaScript values that are not JSON values: undefined and NaN
Undefined == [t |-> "undefined"]
NaN == [t |-> "nan"]
\* The JSON value JSON.stringify writes for a JavaScript value: a member whose
\* value is undefined is left out, undefined in an array and NaN become null
RECURSIVE ToJson(_)
ToJson(v) ==
  CASE v.t = "object" ->
         [t |-> "object",
          f |-> [k \in {x \in DOMAIN v.f : v.f[x] # Undefined} |-> ToJson(v.f[k])]]
    [] v.t = "array" ->
         [t |-> "array",
          a |-> [k \in 1..Len(v.a) |->
                   IF v.a[k] = Undefined THEN [t |-> "null"] ELSE ToJson(v.a[k])]]
    [] v.t = "nan" -> [t |-> "null"]
    [] OTHER -> v
\* the JSON document that denotes v
JsonText(v) == [syntax |-> "json", v |-> v]
JSONstringify(v) == JsonText(ToJson(v))
RawText(s) == [syntax |-> "raw", s |-> s]
JSONparse(text) ==
  IF text.syntax = "json" THEN [ok |-> TRUE, v |-> text.v] ELSE [ok |-> FALSE]
\* JavaScript truthiness of a string: only "" is falsy
Truthy(text) == text # RawText("")

\* A string known by its characters, whatever they spell
JSString(s) == [syntax |-> "chars", s |-> s]
\* JSON.stringify(v, null, 2): the indentation shows only where an object or an
\* array has members
Pretty(v) ==
  IF (v.t = "object" /\ DOMAIN v.f # {}) \/ (v.t = "array" /\ v.a # <<>>)
  THEN [syntax |-> "json", v |-> v, indent |-> 2]
  ELSE JSONstringify(v)

\* JavaScript truthiness of a parsed JSON value
IsTruthy(v) ==
  CASE v.t = "null" -> FALSE
    [] v.t = "string" -> v.s # ""
    [] v.t = "number" -> v.n # 0
    [] v.t = "boolean" -> v.b
    [] v.t \in {"object", "array"} -> TRUE

\* v.k for a parsed value v other than null: the member of an object, and
\* undefined on a string, a number, a boolean, an array or an object without k
Get(v, k) ==
  IF v.t = "object" /\ k \in DOMAIN v.f THEN [def |-> TRUE, v |-> v.f[k]]
  ELSE [def |-> FALSE]

\* the characters of String(v)
RECURSIVE Chars(_)
Chars(v) ==
  CASE v.t = "null" -> "null"
    [] v.t = "string" -> v.s
    [] v.t = "number" -> ToString(v.n)
    [] v.t = "boolean" -> (IF v.b THEN "true" ELSE "false")
    [] v.t = "object" -> "[object Object]"
    [] v.t = "array" ->
         IF v.a = <<>> THEN ""
         ELSE LET h == IF Head(v.a).t = "null" THEN "" ELSE Chars(Head(v.a))
              IN IF Len(v.a) = 1 THEN h ELSE h \o "," \o Chars(Arr(Tail(v.a)))
String(v) == JSString(Chars(v))

\* ------------------------------------------------------------ program ----
SCENARIOS == <<"nginx", "scale-out">>
PLAN_ACK == "Plan acknowledged. Proceed with execution."

\* --------------------------------------------- a2a-client.ts: the client --
\* Result of a call that either returns a value or throws an Error
Return(v) == [ok |-> TRUE, v |-> v]
Throw(m) == [ok |-> FALSE, message |-> m]

\* the body of the POST made by rpc()
Envelope(method, params, id) ==
  [jsonrpc |-> "2.0", method |-> method, params |-> params, id |-> id]

\* mutant: the text sent is the params alone
sendParamsBare(operation, params) ==
  [message |-> [role |-> "user",
                parts |-> <<[kind |-> "text", text |-> JSONstringify(params)]>>]]
\* params of message/send as built by send(operation, params) with no contextId
sendParams(operation, params) ==
  [message |-> [role |-> "user",
                parts |-> <<[kind |-> "text",
                             text |-> JSONstringify(Obj([operation |-> Str(operation),
                                                         params |-> params]))]>>]]

\* params of message/send as built by sendText(text) with no contextId
sendTextParams(text) ==
  [message |-> [role |-> "user", parts |-> <<[kind |-> "text", text |-> RawText(text)]>>]]

\* mutant: the field is always written
withContextIdAlways(rpcParams, ctx) ==
  rpcParams @@ [contextId |-> IF ctx.given THEN ctx.id ELSE ""]
\* if (contextId) rpcParams.contextId = contextId: ctx is the optional argument
withContextId(rpcParams, ctx) ==
  IF ctx.given /\ ctx.id # "" THEN rpcParams @@ [contextId |-> ctx.id] ELSE rpcParams

\* params = {}: the default of send's second argument
paramsOrDefault(p) == IF p.given THEN p.v ELSE EmptyObject

\* res.text().catch(() => ""): the body as characters, "" when it cannot be read
resText(fetched) == IF "text" \in DOMAIN fetched THEN fetched.text ELSE ""

\* mutant: the body is parsed before the status is looked at
rpcBodyBeforeStatus(fetched) ==
  IF fetched.kind = "throw" THEN Throw(fetched.message)
  ELSE IF "body" \in DOMAIN fetched /\ fetched.body.syntax = "json"
       THEN Return(fetched.body.v)
  ELSE IF ~fetched.ok
       THEN Throw("HTTP " \o ToString(fetched.status) \o ": " \o resText(fetched))
  ELSE Throw("Unexpected token in JSON")
\* rpc() after the fetch has settled: a rejected fetch propagates, a non-2xx
\* status throws "HTTP <status>: <body>", a body that is not JSON makes
\* res.json() throw, otherwise the parsed body is returned
rpc(fetched) ==
  IF fetched.kind = "throw" THEN Throw(fetched.message)
  ELSE IF ~fetched.ok
       THEN Throw("HTTP " \o ToString(fetched.status) \o ": " \o resText(fetched))
  ELSE IF fetched.body.syntax # "json" THEN Throw("Unexpected token in JSON")
  ELSE Return(fetched.body.v)

A2AError(error) == "A2A error [" \o ToString(error.code) \o "]: " \o error.message
EMPTY_RESPONSE == "Empty response from A2A endpoint"

\* mutant: a task that is not completed is thrown as an error
sendFailsUnlessCompleted(r) ==
  IF ~r.ok THEN r
  ELSE IF "error" \in DOMAIN r.v THEN Throw(A2AError(r.v.error))
  ELSE IF "result" \notin DOMAIN r.v THEN Throw(EMPTY_RESPONSE)
  ELSE IF r.v.result.status.state # "completed" THEN Throw(r.v.result.status.state)
  ELSE Return(r.v.result)
\* send() after rpc() has settled
send(r) ==
  IF ~r.ok THEN r
  ELSE IF "error" \in DOMAIN r.v THEN Throw(A2AError(r.v.error))
  ELSE IF "result" \notin DOMAIN r.v THEN Throw(EMPTY_RESPONSE)
  ELSE Return(r.v.result)

\* mutant: sendText hands on whatever `result` holds
sendTextNoEmptyCheck(r) ==
  IF ~r.ok THEN r
  ELSE IF "error" \in DOMAIN r.v THEN Throw(A2AError(r.v.error))
  ELSE Return(IF "result" \in DOMAIN r.v THEN r.v.result ELSE Undefined)
\* sendText() after rpc() has settled
sendText(r) ==
  IF ~r.ok THEN r
  ELSE IF "error" \in DOMAIN r.v THEN Throw(A2AError(r.v.error))
  ELSE IF "result" \notin DOMAIN r.v THEN Throw(EMPTY_RESPONSE)
  ELSE Return(r.v.result)

\* getTask() after rpc() has settled: no check that a result is there
getTask(r) ==
  IF ~r.ok THEN r
  ELSE IF "error" \in DOMAIN r.v THEN Throw(A2AError(r.v.error))
  ELSE Return(IF "result" \in DOMAIN r.v THEN r.v.result ELSE Undefined)

\* mutant: a result that is present is returned whether or not there is an error
cancelTaskResultFirst(r) ==
  IF ~r.ok THEN r
  ELSE IF "result" \in DOMAIN r.v THEN Return(r.v.result)
  ELSE IF "error" \in DOMAIN r.v THEN Throw(A2AError(r.v.error))
  ELSE Return(Undefined)
\* cancelTask() after rpc() has settled
cancelTask(r) ==
  IF ~r.ok THEN r
  ELSE IF "error" \in DOMAIN r.v THEN Throw(A2AError(r.v.error))
  ELSE Return(IF "result" \in DOMAIN r.v THEN r.v.result ELSE Undefined)

\* parts.find((p) => p.kind === "text"): the first text-kind part, if any
RECURSIVE FindText(_)
FindText(parts) ==
  IF parts = <<>> THEN [found |-> FALSE]
  ELSE IF Head(parts).kind = "text" THEN [found |-> TRUE, part |-> Head(parts)]
  ELSE FindText(Tail(parts))

\* !task.artifacts?.length
NoArtifacts(task) == "artifacts" \notin DOMAIN task \/ Len(task.artifacts) = 0
\* textPart of a task that has artifacts, and !textPart?.text
TextPart(task) == FindText(task.artifacts[1].parts)
NoText(tp) == ~tp.found \/ ~Truthy(tp.part.text)

extractData(task) ==
  IF NoArtifacts(task) THEN Null
  ELSE LET tp == TextPart(task) IN
       IF NoText(tp) THEN Null
       ELSE LET p == JSONparse(tp.part.text) IN
            IF p.ok THEN p.v ELSE Str(tp.part.text.s)

NO_RESPONSE == JSString("(no response)")

\* parsed.data?.k: undefined when data is undefined or null
GetData(parsed, k) ==
  LET d == Get(parsed, "data") IN
  IF ~d.def \/ d.v.t = "null" THEN [def |-> FALSE] ELSE Get(d.v, k)
\* `if (x)` on a member read: it is there and truthy
Holds(m) == m.def /\ IsTruthy(m.v)

\* the try block of extractText once JSON.parse has returned parsed; raw is
\* textPart.text, which the catch returns when reading a member of null throws
unwrap(parsed, raw) ==
  IF parsed.t = "string" THEN JSString(parsed.s)
  ELSE IF parsed.t = "null" THEN raw
  ELSE IF Holds(Get(parsed, "message")) THEN String(Get(parsed, "message").v)
  ELSE IF Holds(GetData(parsed, "reply")) THEN String(GetData(parsed, "reply").v)
  ELSE IF Holds(GetData(parsed, "message")) THEN String(GetData(parsed, "message").v)
  ELSE IF Holds(Get(parsed, "data")) /\ Get(parsed, "data").v.t = "string"
       THEN JSString(Get(parsed, "data").v.s)
  ELSE Pretty(parsed)

extractText(task) ==
  IF NoArtifacts(task) THEN NO_RESPONSE
  ELSE LET tp == TextPart(task) IN
       IF NoText(tp) THEN NO_RESPONSE
       ELSE LET p == JSONparse(tp.part.text) IN
            IF p.ok THEN unwrap(p.v, tp.part.text) ELSE tp.part.text

\* ------------------------------------------------- agent.ts: executeCall --
HasWarning(task) ==
  "metadata" \in DOMAIN task /\ "lowBalanceWarning" \in DOMAIN task.metadata

\* mutant: a task that carries the advisory is reported as a failed call
executeCallAdvisoryAsError(settled) ==
  IF settled.ok /\ ~("metadata" \in DOMAIN settled.v)
  THEN JSONstringify(Obj([status |-> Str(settled.v.status.state),
                          data |-> extractData(settled.v)]))
  ELSE IF settled.ok
  THEN JSONstringify(Obj([error |-> Str(settled.v.metadata.lowBalanceWarning.message)]))
  ELSE JSONstringify(Obj([error |-> Str(settled.message)]))
\* the string executeCall returns once a2aClient.send has settled
executeCall(settled) ==
  IF settled.ok
  THEN LET task == settled.v
           base == [status |-> Str(task.status.state), data |-> extractData(task)]
       IN JSONstringify(Obj(
            IF HasWarning(task)
            THEN [k \in {"status", "data", "warning"} |->
                    IF k = "warning" THEN Str(task.metadata.lowBalanceWarning.message)
                    ELSE base[k]]
            ELSE base))
  ELSE JSONstringify(Obj([error |-> Str(settled.message)]))

\* ------------------------------------------------------- environment ----
\* Tasks the counterpart returns: one whose text is JSON, with and without the
\* low-balance advisory, and one whose text is not JSON and sits behind a part
\* of another kind
JsonArtifact ==
  <<[artifactId |-> "a1", name |-> "result",
     parts |-> <<[kind |-> "text",
                  text |-> JsonText(Obj([data |-> Obj([id |-> Str("ns-1")])]))]>>]>>
RawArtifact ==
  <<[artifactId |-> "a1", name |-> "result",
     parts |-> <<[kind |-> "data", text |-> RawText("ignored")],
                 [kind |-> "text", text |-> RawText("plain")]>>]>>
Advisory == [lowBalanceWarning |-> [balance |-> "0.5", message |-> "Low balance"]]
Task(state, artifacts, warn) ==
  LET base == [id |-> "task-1", contextId |-> "ctx-1",
               status |-> [state |-> state, timestamp |-> "t"],
               artifacts |-> artifacts, history |-> <<>>]
  IN IF warn THEN base @@ [metadata |-> Advisory] ELSE base
Tasks ==
  {Task("completed", JsonArtifact, FALSE), Task("completed", JsonArtifact, TRUE),
   Task("failed", RawArtifact, FALSE)}

RpcError == [code |-> -32000, message |-> "operation failed"]
JsonRpcResponses ==
  {[jsonrpc |-> "2.0", id |-> 1],
   [jsonrpc |-> "2.0", id |-> 1, error |-> RpcError]}
  \cup {[jsonrpc |-> "2.0", id |-> 1, result |-> t] : t \in Tasks}

\* What the transport does with one request: it rejects (connection failure,
\* or the 60 s AbortSignal firing) or it resolves with a response
FetchOutcomes ==
  {[kind |-> "throw", message |-> "fetch failed"],
   [kind |-> "throw", message |-> "The operation was aborted due to timeout"],
   [kind |-> "response", ok |-> FALSE, status |-> 500, text |-> "boom"]}
  \cup {[kind |-> "response", ok |-> TRUE, status |-> 200, body |-> JsonText(r)] :
          r \in JsonRpcResponses}

\* What the provider can answer.  stop_reason values other than end_turn and
\* tool_use (max_tokens, stop_sequence, pause_turn, refusal) are all treated
\* alike by runTurn; max_tokens stands for them.
StopReasons == {"end_turn", "tool_use", "max_tokens"}
PlanInput == [title |-> "plan", steps |-> <<"step 1">>]
CallInputs ==
  {[narration |-> "n", reason |-> "r", operation |-> "namespace_list"],
   [narration |-> "n", reason |-> "r", reflection |-> "f",
    operation |-> "namespace_create", params |-> Obj([name |-> Str("demo")])]}
BlockShapes ==
  {[type |-> "text"],
   [type |-> "tool_use", name |-> "declare_plan", input |-> PlanInput],
   [type |-> "tool_use", name |-> "other_tool", input |-> PlanInput]}
  \cup {[type |-> "tool_use", name |-> "a2a_call", input |-> in] : in \in CallInputs}
\* the provider gives every tool_use block an id of its own
MkBlock(shape, id) ==
  IF shape.type = "text" THEN [type |-> "text", text |-> "final reply"]
  ELSE [type |-> "tool_use", id |-> id, name |-> shape.name, input |-> shape.input]
Response(stop, shapes, n) ==
  [stop_reason |-> stop,
   content |-> [k \in 1..Len(shapes) |-> MkBlock(shapes[k], <<n, k>>)]]
NoResponse == [stop_reason |-> "none", content |-> <<>>]

\* -------------------------------------------------------------- state ----
VARIABLES
  pc,          \* where main is: "scenario", "loop", "inferring", "dispatch",
               \* "sending", "done", "failed"
  i,           \* runScenarios: index of the current scenario (from 1)
  messages,    \* the conversation history shared by all scenarios
  response,    \* runTurn: the response of the latest inference call
  idx,         \* runTurn: position of the for loop in response.content
  results,     \* runTurn: tool results collected for the current response
  rpcId,       \* A2AClient.rpcId
  inflight,    \* fetches started by the client and not yet settled
  requests,    \* bodies POSTed by the loop, each with the tool call it serves
  outcomes,    \* what the transport answered to requests[k]
  inferCalls,  \* calls of anthropic.messages.create made so far
  turnInfer,   \* ... made by the current runTurn
  turnSends,   \* calls of a2aClient.send made by the current runTurn
  inferThrew,  \* an inference call has rejected
  reported,    \* main's catch has printed the error
  passed,      \* the history given to the latest inference call that resolved,
               \* empty before the first
  events       \* what has been shown so far, and the sends, in order

loopVars == <<pc, i, messages, response, idx, results, rpcId, inflight, requests,
              outcomes, inferCalls, turnInfer, turnSends, inferThrew, reported,
              passed, events>>

\* A caller that drives A2AClient instances directly, as cli.ts and
\* agent-card.ts do, possibly with several calls in flight
VARIABLES
  instRpcId,   \* A2AClient.rpcId of each client instance
  started,     \* the client calls started so far: instance, method, request
  fetches,     \* fetches[n]: invocations of this.fetch made by started[n]
  pending,     \* numbers of the calls whose fetch has not settled
  last         \* the call that settled last: its outcome and what it returned

clientVars == <<instRpcId, started, fetches, pending, last>>

\* One application of extractText and extractData to a task
VARIABLES
  probe,       \* the task the functions are applied to
  gotText,     \* what extractText(probe) returned, once applied
  gotData      \* what extractData(probe) returned, once applied

extractVars == <<probe, gotText, gotData>>

NoCall == [call |-> 0]
NoTask == [id |-> "none"]
NotApplied == [applied |-> FALSE]
Applied(v) == [applied |-> TRUE, v |-> v]

\* One call of send or sendText answered by a counterpart that echoes the
\* message text it received as the text part of the task it returns
VARIABLES
  sendArg,     \* the arguments of the call and the state the counterpart reports
  sendStage,   \* "idle", "sent", "returned", "decoded"
  sendReq,     \* the request body the call handed to fetch
  sendRet,     \* what the call returned or threw
  sendData,    \* extractData of the task returned
  sendResult   \* the tool result executeCall makes of the call

sendVars == <<sendArg, sendStage, sendReq, sendRet, sendData, sendResult>>

\* The spinners: one decorated operation at a time
VARIABLES
  isTTY,       \* process.stdout.isTTY
  timers,      \* the interval timers that are set and not cleared
  spinSite,    \* the function whose awaited call is pending, or "none"
  spinTimer,   \* the timer its stop function clears, 0 for the no-op stop
  spinLog      \* the decorated operations that have ended, with their outcome

spinVars == <<isTTY, timers, spinSite, spinTimer, spinLog>>

\* demo.ts: the session of the interactive demo
VARIABLES
  currentNamespaceId,   \* null, or the characters of the selected namespace id
  currentDeploymentId,  \* null, or the characters of the selected deployment id
  running,              \* the menu loop has not reached process.exit
  demoLast              \* what the latest menu selection did

demoVars == <<currentNamespaceId, currentDeploymentId, running, demoLast>>

\* the guided demo: main walking through its fourteen steps
VARIABLES
  stepNo,        \* the step main is at, from 1
  stage,         \* "ready", "running", "guard", "complete" or "exited"
  plan,          \* the operations the running step has still to send
  awaiting,      \* a call of client.send is pending
  balance,       \* let balance = ""
  namespaceId,   \* let namespaceId = ""
  deploymentId,  \* let deploymentId = ""
  exitCode,      \* the code handed to process.exit, once it was called
  guideLog       \* steps started and finished, calls sent, errors thrown

guideVars == <<stepNo, stage, plan, awaiting, balance, namespaceId, deploymentId,
               exitCode, guideLog>>

NoArg == [fn |-> "none"]
None == [t |-> "none"]

vars == <<loopVars, clientVars, extractVars, sendVars, spinVars, demoVars, guideVars>>
\* what the actions of one part leave alone
besidesLoop == <<clientVars, extractVars, sendVars, spinVars, demoVars, guideVars>>
besidesClient == <<loopVars, extractVars, sendVars, spinVars, demoVars, guideVars>>
besidesExtract == <<loopVars, clientVars, sendVars, spinVars, demoVars, guideVars>>
besidesSend == <<loopVars, clientVars, extractVars, spinVars, demoVars, guideVars>>
besidesSpin == <<loopVars, clientVars, extractVars, sendVars, demoVars, guideVars>>
besidesDemo == <<loopVars, clientVars, extractVars, sendVars, spinVars, guideVars>>
besidesGuide == <<loopVars, clientVars, extractVars, sendVars, spinVars, demoVars>>

UserTurn(text) == [role |-> "user", content |-> <<[type |-> "text", text |-> text]>>]
AssistantTurn(content) == [role |-> "assistant", content |-> content]
ToolResultTurn(rs) == [role |-> "user", content |-> rs]
ToolResult(id, content) == [type |-> "tool_result", tool_use_id |-> id, content |-> content]
PlanAck == RawText(PLAN_ACK)

RECURSIVE BlocksIn(_)
BlocksIn(msgs) ==
  IF msgs = <<>> THEN 0
  ELSE (IF Head(msgs).role = "assistant" THEN Len(Head(msgs).content) ELSE 0)
       + BlocksIn(Tail(msgs))

\* the responses the provider may give to inference call n when it may still
\* emit room blocks: a response that ends the turn carries text only, any
\* other response may carry tool calls
ShapesFor(stop) == IF stop = "end_turn" THEN {[type |-> "text"]} ELSE BlockShapes
Responses(n, room) ==
  UNION {{Response(stop, shapes, n) :
            shapes \in UNION {[1..m -> ShapesFor(stop)] : m \in 0..room}} :
         stop \in StopReasons}

\* blocks the provider may still emit within the bound
Room == MaxWork - inferCalls - BlocksIn(messages)

\* two instances, as two conversations in one process would own
Clients == {1, 2}

\* new A2AClient(...): rpcId = 0, nothing sent
ClientStart ==
  /\ instRpcId = [c \in Clients |-> 0]
  /\ started = <<>>
  /\ fetches = <<>>
  /\ pending = {}
  /\ last = NoCall

ExtractIdle ==
  /\ probe = NoTask
  /\ gotText = NotApplied
  /\ gotData = NotApplied

SendIdle ==
  /\ sendArg = NoArg
  /\ sendStage = "idle"
  /\ sendReq = None
  /\ sendRet = None
  /\ sendData = None
  /\ sendResult = None

\* main up to the call of runScenarios
LoopStart ==
  /\ pc = "scenario"
  /\ i = 1
  /\ messages = <<>>
  /\ response = NoResponse
  /\ idx = 1
  /\ results = <<>>
  /\ rpcId = 0
  /\ inflight = 0
  /\ requests = <<>>
  /\ outcomes = <<>>
  /\ inferCalls = 0
  /\ turnInfer = 0
  /\ turnSends = 0
  /\ inferThrew = FALSE
  /\ reported = FALSE
  /\ passed = <<>>
  /\ events = <<>>

\* no spinner started, no timer set
NoTimers ==
  /\ timers = {}
  /\ spinSite = "none"
  /\ spinTimer = 0
  /\ spinLog = <<>>
SpinIdle == isTTY = TRUE /\ NoTimers

\* let currentNamespaceId = null; let currentDeploymentId = null; no selection
\* made yet
NoSelection ==
  [fn |-> "none", nsBefore |-> Null, depBefore |-> Null, calls |-> <<>>,
   sent |-> [sent |-> FALSE], data |-> [applied |-> FALSE], threw |-> FALSE]
DemoStart ==
  /\ currentNamespaceId = Null
  /\ currentDeploymentId = Null
  /\ running = TRUE
  /\ demoLast = NoSelection

\* main of the guided demo before step 1
GuideStart ==
  /\ stepNo = 1
  /\ stage = "ready"
  /\ plan = <<>>
  /\ awaiting = FALSE
  /\ balance = JSString("")
  /\ namespaceId = JSString("")
  /\ deploymentId = JSString("")
  /\ exitCode = None
  /\ guideLog = <<>>

Init ==
  /\ LoopStart
  /\ ClientStart
  /\ ExtractIdle
  /\ SendIdle
  /\ SpinIdle
  /\ DemoStart
  /\ GuideStart

\* ----------------------------------------------------- what is shown ----
\* showPlan, printCallTop, printCallBottom and showAgentReply each show one
\* event; the start of a2aClient.send is logged between the two call events
PlanDeclared(id, n) == [run |-> n, event |-> "plan declared", call |-> id]
OperationDispatched(id, n) == [run |-> n, event |-> "operation dispatched", call |-> id]
SendStarted(id, n) == [run |-> n, event |-> "send", call |-> id]
OperationResult(id, n) == [run |-> n, event |-> "operation result", call |-> id]
FinalAnswerShown(n) == [run |-> n, event |-> "final answer"]
\* const tb = response.content.find((b) => b.type === "text");
\* if (tb?.type === "text") showAgentReply(tb.text)
FinalAnswerEvents(resp, n) ==
  IF \E k \in 1..Len(resp.content) : resp.content[k].type = "text"
  THEN <<FinalAnswerShown(n)>> ELSE <<>>

\* ------------------------------------------------------- runScenarios ----
\* mutant: every scenario starts a conversation of its own
PushPromptFresh ==
  /\ pc = "scenario"
  /\ i <= Len(SCENARIOS)
  /\ messages' = <<UserTurn(SCENARIOS[i])>>
  /\ turnInfer' = 0
  /\ turnSends' = 0
  /\ pc' = "loop"
  /\ UNCHANGED besidesLoop
  /\ UNCHANGED <<i, response, idx, results, rpcId, inflight, requests, outcomes,
                 inferCalls, inferThrew, reported, passed, events>>
\* messages.push({role: "user", content: s.prompt}); runTurn(...)
PushPrompt ==
  /\ pc = "scenario"
  /\ i <= Len(SCENARIOS)
  /\ messages' = Append(messages, UserTurn(SCENARIOS[i]))
  /\ turnInfer' = 0
  /\ turnSends' = 0
  /\ pc' = "loop"
  /\ UNCHANGED besidesLoop
  /\ UNCHANGED <<passed, events>>
  /\ UNCHANGED <<i, response, idx, results, rpcId, inflight, requests, outcomes,
                 inferCalls, inferThrew, reported>>

\* ------------------------------------------------------------ runTurn ----
\* top of while (true): anthropic.messages.create({... messages}) is awaited
CallInference ==
  /\ pc = "loop"
  /\ inferCalls + BlocksIn(messages) < MaxWork
  /\ inferCalls' = inferCalls + 1
  /\ turnInfer' = turnInfer + 1
  /\ pc' = "inferring"
  /\ UNCHANGED besidesLoop
  /\ UNCHANGED <<passed, events>>
  /\ UNCHANGED <<i, messages, response, idx, results, rpcId, inflight, requests,
                 outcomes, turnSends, inferThrew, reported>>

\* mutant: the break sits inside the if that looks for a text block
BreaksOnText(resp) ==
  resp.stop_reason = "end_turn" /\ \E k \in 1..Len(resp.content) : resp.content[k].type = "text"
\* if (response.stop_reason === "end_turn") { ...; break; }
Breaks(resp) == resp.stop_reason = "end_turn"
\* if (response.stop_reason === "tool_use") { ... }
Dispatches(resp) == resp.stop_reason = "tool_use"

\* the call resolves with a final answer: the assistant turn is pushed, runTurn
\* returns and runScenarios moves on to the next scenario, or main ends
FinalAnswer(resp) ==
  /\ pc = "inferring"
  /\ Breaks(resp)
  /\ response' = resp
  /\ messages' = Append(messages, AssistantTurn(resp.content))
  /\ i' = i + 1
  /\ pc' = IF i < Len(SCENARIOS) THEN "scenario" ELSE "done"
  /\ passed' = messages
  /\ events' = events \o FinalAnswerEvents(resp, i)
  /\ UNCHANGED besidesLoop
  /\ UNCHANGED <<idx, results, rpcId, inflight, requests, outcomes, inferCalls,
                 turnInfer, turnSends, inferThrew, reported>>

\* the call resolves with stop_reason tool_use: results = [] and the for loop
\* over response.content starts
ToolUse(resp) ==
  /\ pc = "inferring"
  /\ ~Breaks(resp)
  /\ Dispatches(resp)
  /\ response' = resp
  /\ messages' = Append(messages, AssistantTurn(resp.content))
  /\ results' = <<>>
  /\ idx' = 1
  /\ pc' = "dispatch"
  /\ passed' = messages
  /\ UNCHANGED events
  /\ UNCHANGED besidesLoop
  /\ UNCHANGED <<i, rpcId, inflight, requests, outcomes, inferCalls, turnInfer,
                 turnSends, inferThrew, reported>>

\* the call resolves with any other stop_reason: neither if applies and the
\* while loop goes round again
OtherStop(resp) ==
  /\ pc = "inferring"
  /\ ~Breaks(resp)
  /\ ~Dispatches(resp)
  /\ response' = resp
  /\ messages' = Append(messages, AssistantTurn(resp.content))
  /\ pc' = "loop"
  /\ passed' = messages
  /\ UNCHANGED events
  /\ UNCHANGED besidesLoop
  /\ UNCHANGED <<i, idx, results, rpcId, inflight, requests, outcomes, inferCalls,
                 turnInfer, turnSends, inferThrew, reported>>

\* mutant: runScenarios catches the error of a scenario and goes on to the next
InferenceThrowsSwallowed ==
  /\ pc = "inferring"
  /\ inferThrew' = TRUE
  /\ reported' = TRUE
  /\ i' = i + 1
  /\ pc' = IF i < Len(SCENARIOS) THEN "scenario" ELSE "done"
  /\ UNCHANGED besidesLoop
  /\ UNCHANGED <<passed, events>>
  /\ UNCHANGED <<messages, response, idx, results, rpcId, inflight, requests,
                 outcomes, inferCalls, turnInfer, turnSends>>
\* the call rejects: nothing in runTurn or runScenarios catches, main's catch
\* prints the error and main returns
InferenceThrows ==
  /\ pc = "inferring"
  /\ inferThrew' = TRUE
  /\ reported' = TRUE
  /\ pc' = "failed"
  /\ UNCHANGED besidesLoop
  /\ UNCHANGED <<passed, events>>
  /\ UNCHANGED <<i, messages, response, idx, results, rpcId, inflight, requests,
                 outcomes, inferCalls, turnInfer, turnSends>>

InLoop == pc = "dispatch" /\ idx <= Len(response.content)
Cur == response.content[idx]

\* if (block.type !== "tool_use") continue;
SkipBlock ==
  /\ InLoop
  /\ Cur.type # "tool_use"
  /\ idx' = idx + 1
  /\ UNCHANGED besidesLoop
  /\ UNCHANGED <<passed, events>>
  /\ UNCHANGED <<pc, i, messages, response, results, rpcId, inflight, requests,
                 outcomes, inferCalls, turnInfer, turnSends, inferThrew, reported>>

\* mutant: results.unshift(x)
Unshift(rs, x) == <<x>> \o rs
\* results.push(x)
Push(rs, x) == Append(rs, x)

\* mutant: a plan declaration is sent to the counterpart like an operation
DispatchPlanViaSend ==
  /\ pc = "dispatch" /\ idx <= Len(response.content)
  /\ response.content[idx].type = "tool_use"
  /\ response.content[idx].name = "declare_plan"
  /\ requests' = Append(requests,
                   [call |-> response.content[idx].id,
                    body |-> Envelope("message/send",
                                      sendParams("declare_plan", EmptyObject), rpcId + 1)])
  /\ rpcId' = rpcId + 1
  /\ inflight' = inflight + 1
  /\ turnSends' = turnSends + 1
  /\ pc' = "sending"
  /\ UNCHANGED besidesLoop
  /\ UNCHANGED <<passed, events>>
  /\ UNCHANGED <<i, messages, response, idx, results, outcomes, inferCalls,
                 turnInfer, inferThrew, reported>>
\* if (block.name === "declare_plan") { showPlan; results.push(ack); continue; }
DispatchPlan ==
  /\ InLoop
  /\ Cur.type = "tool_use"
  /\ Cur.name = "declare_plan"
  /\ results' = Push(results, ToolResult(Cur.id, PlanAck))
  /\ idx' = idx + 1
  /\ events' = Append(events, PlanDeclared(Cur.id, i))
  /\ UNCHANGED passed
  /\ UNCHANGED besidesLoop
  /\ UNCHANGED <<pc, i, messages, response, rpcId, inflight, requests, outcomes,
                 inferCalls, turnInfer, turnSends, inferThrew, reported>>

\* mutant: executeCall is not awaited, the for loop goes on while the fetch runs
DispatchCallNoAwait ==
  /\ pc = "dispatch" /\ idx <= Len(response.content)
  /\ response.content[idx].type = "tool_use"
  /\ response.content[idx].name = "a2a_call"
  /\ requests' = Append(requests, [call |-> response.content[idx].id, body |-> rpcId + 1])
  /\ rpcId' = rpcId + 1
  /\ inflight' = inflight + 1
  /\ turnSends' = turnSends + 1
  /\ idx' = idx + 1
  /\ UNCHANGED besidesLoop
  /\ UNCHANGED <<passed, events>>
  /\ UNCHANGED <<pc, i, messages, response, results, outcomes, inferCalls,
                 turnInfer, inferThrew, reported>>
\* if (block.name === "a2a_call"): executeCall(..., operation, params ?? {})
\* runs up to its await of a2aClient.send, which has built the message and
\* started the fetch in rpc() with id ++rpcId
DispatchCall ==
  /\ InLoop
  /\ Cur.type = "tool_use"
  /\ Cur.name = "a2a_call"
  /\ LET params == IF "params" \in DOMAIN Cur.input THEN Cur.input.params
                   ELSE EmptyObject
     IN requests' = Append(requests,
                      [call |-> Cur.id,
                       body |-> Envelope("message/send",
                                         sendParams(Cur.input.operation, params),
                                         rpcId + 1)])
  /\ rpcId' = rpcId + 1
  /\ inflight' = inflight + 1
  /\ turnSends' = turnSends + 1
  /\ pc' = "sending"
  /\ events' = events \o <<OperationDispatched(Cur.id, i), SendStarted(Cur.id, i)>>
  /\ UNCHANGED passed
  /\ UNCHANGED besidesLoop
  /\ UNCHANGED <<i, messages, response, idx, results, outcomes, inferCalls,
                 turnInfer, inferThrew, reported>>

\* mutant: executeCall has no try/catch, a failed send propagates to main
FetchSettlesUncaught(o) ==
  /\ pc = "sending"
  /\ inflight' = inflight - 1
  /\ outcomes' = Append(outcomes, o)
  /\ IF send(rpc(o)).ok
     THEN /\ results' = Append(results, ToolResult(response.content[idx].id,
                                                   executeCall(send(rpc(o)))))
          /\ idx' = idx + 1
          /\ pc' = "dispatch"
          /\ UNCHANGED reported
     ELSE /\ reported' = TRUE
          /\ pc' = "failed"
          /\ UNCHANGED <<results, idx>>
  /\ events' = Append(events, OperationResult(response.content[idx].id, i))
  /\ UNCHANGED passed
  /\ UNCHANGED besidesLoop
  /\ UNCHANGED <<i, messages, response, rpcId, requests, inferCalls, turnInfer,
                 turnSends, inferThrew>>
\* the fetch settles: rpc() and send() finish, executeCall returns its string
\* from the try or from the catch, runTurn pushes the tool result and the for
\* loop moves to the next block
FetchSettles(o) ==
  /\ pc = "sending"
  /\ inflight' = inflight - 1
  /\ outcomes' = Append(outcomes, o)
  /\ results' = Push(results, ToolResult(Cur.id, executeCall(send(rpc(o)))))
  /\ idx' = idx + 1
  /\ pc' = "dispatch"
  /\ events' = Append(events, OperationResult(Cur.id, i))
  /\ UNCHANGED passed
  /\ UNCHANGED besidesLoop
  /\ UNCHANGED <<i, messages, response, rpcId, requests, inferCalls, turnInfer,
                 turnSends, inferThrew, reported>>

\* a tool_use block with any other name: neither if applies
IgnoreTool ==
  /\ InLoop
  /\ Cur.type = "tool_use"
  /\ Cur.name \notin {"declare_plan", "a2a_call"}
  /\ idx' = idx + 1
  /\ UNCHANGED besidesLoop
  /\ UNCHANGED <<passed, events>>
  /\ UNCHANGED <<pc, i, messages, response, results, rpcId, inflight, requests,
                 outcomes, inferCalls, turnInfer, turnSends, inferThrew, reported>>

\* after the for loop: messages.push({role: "user", content: results})
EndDispatch ==
  /\ pc = "dispatch"
  /\ idx > Len(response.content)
  /\ messages' = Append(messages, ToolResultTurn(results))
  /\ pc' = "loop"
  /\ UNCHANGED besidesLoop
  /\ UNCHANGED <<passed, events>>
  /\ UNCHANGED <<i, response, idx, results, rpcId, inflight, requests, outcomes,
                 inferCalls, turnInfer, turnSends, inferThrew, reported>>

Next ==
  \/ PushPrompt
  \/ CallInference
  \/ \E resp \in Responses(inferCalls, Room) : FinalAnswer(resp)
  \/ \E resp \in Responses(inferCalls, Room) : ToolUse(resp)
  \/ \E resp \in Responses(inferCalls, Room) : OtherStop(resp)
  \/ InferenceThrows
  \/ SkipBlock
  \/ DispatchPlan
  \/ DispatchCall
  \/ \E o \in FetchOutcomes : FetchSettles(o)
  \/ IgnoreTool
  \/ EndDispatch

Spec == Init /\ [][Next]_vars

TypeOK ==
  /\ pc \in {"scenario", "loop", "inferring", "dispatch", "sending", "done", "failed"}
  /\ i \in 1..(Len(SCENARIOS) + 1)
  /\ inflight \in 0..1
  /\ rpcId = Len(requests)

\* --------------------------------------------------- reading a history ----
Range(f) == {f[k] : k \in DOMAIN f}
IsToolUse(b) == b.type = "tool_use"
IsToolResult(b) == b.type = "tool_result"
ToolUses(content) == SelectSeq(content, IsToolUse)
\* a user turn made of tool results only (the turn pushed after the for loop)
IsToolResultTurn(turn) ==
  turn.role = "user" /\ \A b \in Range(turn.content) : IsToolResult(b)

RECURSIVE ResultBlocks(_)
ResultBlocks(msgs) ==
  IF msgs = <<>> THEN <<>>
  ELSE (IF Head(msgs).role = "user" THEN SelectSeq(Head(msgs).content, IsToolResult)
        ELSE <<>>) \o ResultBlocks(Tail(msgs))
\* every tool result produced so far: those in the history and those the
\* running for loop has collected
Dispatching == pc \in {"dispatch", "sending"}
AllResultBlocks == ResultBlocks(messages) \o (IF Dispatching THEN results ELSE <<>>)
ResultsFor(id) == SelectSeq(AllResultBlocks, LAMBDA r : r.tool_use_id = id)
\* the turns of the history that answer tool call id
TurnsAnswering(id) ==
  {j \in 1..Len(messages) :
     /\ messages[j].role = "user"
     /\ \E r \in Range(messages[j].content) : IsToolResult(r) /\ r.tool_use_id = id}
\* tool call id belongs to the response whose for loop is running
InCurrentDispatch(id) ==
  Dispatching /\ \E b \in Range(ToolUses(response.content)) : b.id = id

\* the transport's answer makes a2aClient.send throw
DispatchFails(o) ==
  \/ o.kind = "throw"
  \/ ~o.ok
  \/ o.body.syntax # "json"
  \/ "error" \in DOMAIN o.body.v
  \/ "result" \notin DOMAIN o.body.v

\* ------------------------------------------------------------- claims ----

\* C1 (as stated): whenever an inference call is made, every tool call of
\* every earlier response has exactly one tool result with its id in the turn
\* that follows the response, whatever its tool name and the stop reason.
C1_EveryToolCallAnsweredOnce ==
  pc = "inferring" =>
    \A k \in 1..Len(messages) :
      messages[k].role = "assistant" =>
        \A b \in Range(ToolUses(messages[k].content)) :
          /\ k < Len(messages)
          /\ Cardinality({j \in 1..Len(messages[k + 1].content) :
                 /\ IsToolResult(messages[k + 1].content[j])
                 /\ messages[k + 1].content[j].tool_use_id = b.id}) = 1

\* C2: a dispatch whose send throws does not end the run: its tool call gets
\* exactly one tool result, an object whose only content is an error string
\* holding the thrown message; once the for loop is over that result sits in
\* exactly one turn of the history; and only an inference error ends the run.
C2_FailedDispatchYieldsErrorResult ==
  /\ pc = "failed" => inferThrew
  /\ \A k \in 1..Len(outcomes) :
       DispatchFails(outcomes[k]) =>
         LET rs == ResultsFor(requests[k].call) IN
         /\ Len(rs) = 1
         /\ rs[1].content.syntax = "json"
         /\ rs[1].content.v.t = "object"
         /\ "error" \in DOMAIN rs[1].content.v.f
         /\ rs[1].content.v.f.error.t = "string"
         /\ rs[1].content.v.f.error.s = send(rpc(outcomes[k])).message
         /\ Cardinality(TurnsAnswering(requests[k].call)) =
              IF InCurrentDispatch(requests[k].call) THEN 0 ELSE 1

\* C2 witness: an inference call is in flight after a dispatch of the same
\* runTurn failed with a non-2xx status
C2_Witness ==
  /\ pc = "inferring"
  /\ turnInfer = 2
  /\ \E k \in 1..Len(outcomes) :
       /\ outcomes[k].kind = "response" /\ ~outcomes[k].ok
       /\ Cardinality(TurnsAnswering(requests[k].call)) = 1

\* C3: when the first response of a runTurn is a final answer without tool
\* calls, runTurn has returned, after one inference call and no send.
C3_FinalFirstResponseEndsTurn ==
  ( /\ turnInfer = 1
    /\ pc \notin {"inferring", "failed"}
    /\ response.stop_reason = "end_turn"
    /\ ToolUses(response.content) = <<>> )
  => (pc \in {"scenario", "done"} /\ turnSends = 0)

\* C3 witness: the run is over, the last runTurn made one inference call, got
\* a final answer, and the client was never used
C3_Witness ==
  /\ pc = "done"
  /\ turnInfer = 1
  /\ response.stop_reason = "end_turn"
  /\ rpcId = 0 /\ requests = <<>>

\* C4: at most one fetch of the loop is in flight, a send is started only
\* when every earlier one has settled, and none is in flight while an
\* inference call is.
C4_OneSendInFlight ==
  /\ inflight <= 1
  /\ inflight = Len(requests) - Len(outcomes)
  /\ inflight = 1 => pc = "sending"
  /\ pc = "inferring" => inflight = 0

\* C4 witness: the second send of a turn is in flight, the first has settled
C4_Witness ==
  /\ pc = "sending"
  /\ turnSends = 2
  /\ Len(outcomes) = 1
  /\ idx = 2

\* position of tool call id in a response, and: rs answers tool calls of
\* content only, in the order content holds them
PosOf(content, id) ==
  CHOOSE p \in 1..Len(content) : IsToolUse(content[p]) /\ content[p].id = id
InOrder(content, rs) ==
  /\ \A p \in 1..Len(rs) :
       \E q \in 1..Len(content) : IsToolUse(content[q]) /\ content[q].id = rs[p].tool_use_id
  /\ \A p, q \in 1..Len(rs) :
       p < q => PosOf(content, rs[p].tool_use_id) < PosOf(content, rs[q].tool_use_id)
\* C5: the tool results of a turn are in the order of the tool calls they
\* answer, in the collected results and in every appended tool-result turn.
C5_ResultsInCallOrder ==
  /\ Dispatching => InOrder(response.content, results)
  /\ \A k \in 1..(Len(messages) - 1) :
       (messages[k].role = "assistant" /\ IsToolResultTurn(messages[k + 1]))
       => InOrder(messages[k].content, messages[k + 1].content)

\* C5 witness: an appended turn answers a failed operation call and then a
\* plan declaration, in the order they were emitted
C5_Witness ==
  /\ pc = "loop"
  /\ Len(messages) >= 2
  /\ LET t == messages[Len(messages)] IN
     /\ IsToolResultTurn(t)
     /\ Len(t.content) = 2
     /\ t.content[1].content.syntax = "json"
     /\ "error" \in DOMAIN t.content[1].content.v.f
     /\ t.content[2].content = PlanAck

\* C6 (as stated): every inference call of a runTurn after its first is made
\* right after one tool-result turn, itself appended right after the
\* assistant turn of the previous response.
C6_ToolResultTurnBetweenInferences ==
  (pc = "inferring" /\ turnInfer > 1) =>
    /\ Len(messages) >= 2
    /\ IsToolResultTurn(messages[Len(messages)])
    /\ messages[Len(messages) - 1].role = "assistant"

\* C7: once an inference call has rejected, the run has ended with the error
\* reported, and no step starts an inference call, a send or a scenario.
C7_InferenceErrorEndsRun ==
  /\ [](inferThrew => (pc = "failed" /\ reported /\ inflight = 0))
  /\ [][inferThrew =>
          (/\ inferCalls' = inferCalls
           /\ requests' = requests
           /\ rpcId' = rpcId
           /\ messages' = messages
           /\ i' = i)]_vars

\* C7 witness: the inference call after a dispatched operation rejected in the
\* first scenario; the second scenario was never started
C7_Witness ==
  /\ inferThrew
  /\ pc = "failed"
  /\ i = 1
  /\ Len(outcomes) = 1
  /\ inferCalls = 2

\* the operation and params of the operation tool calls of a history, in
\* emission order, params defaulting to {}
RECURSIVE OperationCalls(_)
OperationCalls(msgs) ==
  IF msgs = <<>> THEN <<>>
  ELSE (IF Head(msgs).role = "assistant"
        THEN LET calls == SelectSeq(Head(msgs).content,
                            LAMBDA b : IsToolUse(b) /\ b.name = "a2a_call")
             IN [k \in 1..Len(calls) |->
                   [operation |-> Str(calls[k].input.operation),
                    params |-> IF "params" \in DOMAIN calls[k].input
                               THEN calls[k].input.params ELSE EmptyObject]]
        ELSE <<>>) \o OperationCalls(Tail(msgs))
\* the {operation, params} envelopes the loop has sent, in order
SentOperations ==
  [k \in 1..Len(requests) |->
     LET env == requests[k].body.params.message.parts[1].text.v.f
     IN [operation |-> env.operation, params |-> env.params]]

\* C8 (as stated): when a run is over, the sends the loop issued are, one for
\* one and in order, the operation tool calls the provider emitted, each
\* carrying the call's operation and params.
C8_OneSendPerOperationCall ==
  pc \in {"done", "failed"} => SentOperations = OperationCalls(messages)

\* the transport's answer makes a2aClient.send return a task
ReturnsTask(o) == ~DispatchFails(o)
TaskOf(o) == o.body.v.result
WithoutAdvisory(task) == [k \in DOMAIN task \ {"metadata"} |-> task[k]]

RECURSIVE PlansIn(_)
PlansIn(content) ==
  IF content = <<>> THEN {}
  ELSE (IF IsToolUse(Head(content)) /\ Head(content).name = "declare_plan"
        THEN {Head(content).id} ELSE {}) \cup PlansIn(Tail(content))
HandledPlans ==
  UNION {PlansIn(messages[k].content) :
           k \in {j \in 1..(Len(messages) - 1) :
                    messages[j].role = "assistant" /\ IsToolResultTurn(messages[j + 1])}}
  \cup (IF Dispatching THEN PlansIn(SubSeq(response.content, 1, idx - 1)) ELSE {})

C24_FinalAnswerOrDispatch ==
  [][/\ (pc \notin {"scenario", "done"} /\ pc' \in {"scenario", "done"})
          => (pc = "inferring" /\ Breaks(response'))
     /\ (pc = "inferring" /\ pc' # "inferring" /\ ~inferThrew' /\ ~Breaks(response'))
          => pc' = "dispatch"]_vars

\* s is t with at least one turn taken off its end
StrictPrefix(s, t) == Len(s) < Len(t) /\ SubSeq(t, 1, Len(s)) = s

\* C25: the history given to an inference call extends the history given to
\* the inference call before it by at least one turn and changes none of its
\* turns, within a scenario and from one scenario to the next.
C25_HistoryGrowsByAppending ==
  pc = "inferring" => StrictPrefix(passed, messages)

\* the second scenario is at an inference call, and its history starts with
\* the whole history of the first
C25_Witness ==
  /\ pc = "inferring"
  /\ i = 2
  /\ Len(passed) >= 1
  /\ StrictPrefix(passed, messages)

\* positions in the log of the events of one kind about tool call id
EventsOf(kind, id) ==
  {k \in 1..Len(events) :
     "call" \in DOMAIN events[k] /\ events[k].event = kind /\ events[k].call = id}
\* ids of the tool calls with this name in the assistant turns of the history
CallsNamed(name) ==
  UNION {{b.id : b \in {x \in Range(ToolUses(messages[k].content)) : x.name = name}} :
           k \in {j \in 1..Len(messages) : messages[j].role = "assistant"}}
FinalAnswers == {k \in 1..Len(events) : events[k].event = "final answer"}

\* C26: when the next inference call is made, every operation tool call of
\* the history has exactly one `operation dispatched` event, then its send,
\* then exactly one `operation result` event, and every plan declaration has
\* exactly one `plan declared` event; a run shows at most one `final answer`
\* event, and nothing of that run after it.
C26_EventsInProtocolOrder ==
  /\ pc = "inferring" =>
       /\ \A id \in CallsNamed("a2a_call") :
            \E d, sd, r \in 1..Len(events) :
              /\ EventsOf("operation dispatched", id) = {d}
              /\ EventsOf("send", id) = {sd}
              /\ EventsOf("operation result", id) = {r}
              /\ d < sd
              /\ sd < r
       /\ \A id \in CallsNamed("declare_plan") :
            Cardinality(EventsOf("plan declared", id)) = 1
  /\ \A k \in FinalAnswers :
       \A j \in 1..Len(events) :
         (j # k /\ events[j].run = events[k].run) => (j < k /\ j \notin FinalAnswers)

\* C27: at every inference call the history starts with a user turn, ends
\* with a user turn, and no two neighbouring turns have the same role.
C27_TurnsAlternate ==
  pc = "inferring" =>
    /\ messages[1].role = "user"
    /\ messages[Len(messages)].role = "user"
    /\ \A k \in 1..(Len(messages) - 1) : messages[k].role # messages[k + 1].role

\* =========================================================================
\* The protocol client driven directly: any caller, any interleaving of calls
\* on two instances, every answer the transport can give
\* =========================================================================

\* ------------------------------------------------------- environment ----
ClientTask == Task("completed", JsonArtifact, FALSE)
ClientResponses ==
  {[jsonrpc |-> "2.0", id |-> 1],
   [jsonrpc |-> "2.0", id |-> 1, error |-> RpcError],
   [jsonrpc |-> "2.0", id |-> 1, error |-> RpcError, result |-> ClientTask],
   [jsonrpc |-> "2.0", id |-> 1, result |-> ClientTask],
   [jsonrpc |-> "2.0", id |-> 1, result |-> Task("failed", RawArtifact, FALSE)]}

\* What the transport does with one request of the caller.  A response has a
\* body; `text` is what res.text() reads of it, missing when the read fails.
ClientOutcomes ==
  {[kind |-> "throw", message |-> "fetch failed"],
   [kind |-> "throw", message |-> "The operation was aborted due to timeout"],
   [kind |-> "response", ok |-> FALSE, status |-> 500,
    body |-> RawText("boom"), text |-> "boom"],
   [kind |-> "response", ok |-> FALSE, status |-> 402,
    body |-> JsonText([jsonrpc |-> "2.0", id |-> 1, result |-> ClientTask]),
    text |-> "{\"jsonrpc\":\"2.0\",\"id\":1,\"result\":{\"id\":\"task-1\"}}"],
   [kind |-> "response", ok |-> FALSE, status |-> 500,
    body |-> JsonText([jsonrpc |-> "2.0", id |-> 1, error |-> RpcError]),
    text |-> "{\"jsonrpc\":\"2.0\",\"id\":1,\"error\":{\"code\":-32000}}"],
   [kind |-> "response", ok |-> FALSE, status |-> 502, body |-> RawText("")],
   [kind |-> "response", ok |-> TRUE, status |-> 200, body |-> RawText("<html>")]}
  \cup {[kind |-> "response", ok |-> TRUE, status |-> 200, body |-> JsonText(r)] :
          r \in ClientResponses}

\* ------------------------------------------------------------ actions ----
\* mutant: the counter is read but not advanced
NextIdNoIncrement(c) == instRpcId[c]
\* ++this.rpcId
NextId(c) == instRpcId[c] + 1

\* A client method up to its await: rpc() takes the next id of the instance
\* and hands the request to this.fetch, all in one synchronous run
Issue(c, fn, method, params) ==
  /\ instRpcId' = [instRpcId EXCEPT ![c] = NextId(c)]
  /\ started' = Append(started, [client |-> c, fn |-> fn,
                                 body |-> Envelope(method, params, NextId(c))])
  /\ fetches' = Append(fetches, 1)
  /\ pending' = pending \cup {Len(started) + 1}
  /\ UNCHANGED last
  /\ UNCHANGED besidesClient

CallSendText(c) ==
  /\ Len(started) < MaxCalls
  /\ Issue(c, "sendText", "message/send", sendTextParams("hello"))
CallSend(c) ==
  /\ Len(started) < MaxCalls
  /\ Issue(c, "send", "message/send", sendParams("namespace_list", EmptyObject))
CallGetTask(c) ==
  /\ Len(started) < MaxCalls
  /\ Issue(c, "getTask", "tasks/get", [id |-> "task-1"])
CallCancelTask(c) ==
  /\ Len(started) < MaxCalls
  /\ Issue(c, "cancelTask", "tasks/cancel", [id |-> "task-1"])

\* the rest of the method once rpc() has settled
Handle(fn, r) ==
  CASE fn = "sendText" -> sendText(r)
    [] fn = "send" -> send(r)
    [] fn = "getTask" -> getTask(r)
    [] fn = "cancelTask" -> cancelTask(r)

\* mutant: a call whose exchange failed sends its request again
SettleRetries(n, o) ==
  /\ n \in pending
  /\ IF rpc(o).ok
     THEN /\ pending' = pending \ {n}
          /\ last' = [call |-> n, fn |-> started[n].fn, outcome |-> o,
                      ret |-> Handle(started[n].fn, rpc(o))]
          /\ UNCHANGED fetches
     ELSE /\ fetches' = [fetches EXCEPT ![n] = @ + 1]
          /\ UNCHANGED <<pending, last>>
  /\ UNCHANGED <<instRpcId, started>>
  /\ UNCHANGED besidesClient
\* The fetch of call n settles with outcome o and the call returns or throws
Settle(n, o) ==
  /\ n \in pending
  /\ pending' = pending \ {n}
  /\ last' = [call |-> n, fn |-> started[n].fn, outcome |-> o,
              ret |-> Handle(started[n].fn, rpc(o))]
  /\ UNCHANGED <<instRpcId, started, fetches>>
  /\ UNCHANGED besidesClient

ClientNext ==
  \/ \E c \in Clients : CallSendText(c)
  \/ \E c \in Clients : CallSend(c)
  \/ \E c \in Clients : CallGetTask(c)
  \/ \E c \in Clients : CallCancelTask(c)
  \/ \E n \in pending : \E o \in ClientOutcomes : Settle(n, o)

ClientSpec == Init /\ [][ClientNext]_vars

\* ------------------------------------------------- reading a settlement ----
Settled == last.call > 0
\* the transport answered 2xx with a body that is JSON
Is2xxJson(o) == o.kind = "response" /\ o.ok /\ o.body.syntax = "json"
IsNon2xx(o) == o.kind = "response" /\ ~o.ok
HasError(o) == Is2xxJson(o) /\ "error" \in DOMAIN o.body.v
HasResult(o) == Is2xxJson(o) /\ "result" \in DOMAIN o.body.v
FailsWith(ret, m) == ~ret.ok /\ ret.message = m

\* ------------------------------------------------------------- claims ----
\* C11: in sendText, send, getTask and cancelTask alike, a response that
\* carries an `error` field makes the call throw the protocol error built from
\* that error's code and message, also when the response carries a `result`
\* too; the result is not returned then.
C11_ErrorFieldFailsCall ==
  (Settled /\ HasError(last.outcome))
    => FailsWith(last.ret, A2AError(last.outcome.body.v.error))

\* cancelTask got a response with both an error and a result, and threw
C11_Witness ==
  /\ Settled
  /\ last.fn = "cancelTask"
  /\ HasError(last.outcome)
  /\ HasResult(last.outcome)
  /\ ~last.ret.ok

\* C12: sendText and send throw the empty-response error when a 2xx response
\* carries neither `result` nor `error`, and return exactly the `result` task
\* when the response carries a result and no error.
C12_EmptyResultOrTheTask ==
  (Settled /\ last.fn \in {"sendText", "send"} /\ Is2xxJson(last.outcome)
     /\ ~HasError(last.outcome))
    => IF HasResult(last.outcome)
       THEN last.ret = Return(last.outcome.body.v.result)
       ELSE FailsWith(last.ret, EMPTY_RESPONSE)

\* sendText got a 2xx response with neither field and threw
C12_Witness ==
  /\ Settled
  /\ last.fn = "sendText"
  /\ Is2xxJson(last.outcome)
  /\ ~HasError(last.outcome)
  /\ ~HasResult(last.outcome)
  /\ FailsWith(last.ret, EMPTY_RESPONSE)

\* C13: getTask handles the response as send does, so it throws the
\* empty-response error when a 2xx response carries neither `result` nor
\* `error`; cancelTask handles it the same way except that it returns, without
\* throwing, when the result is absent.
C13_GetTaskAsSendCancelTaskLenient ==
  /\ (Settled /\ last.fn = "getTask")
       => last.ret = send(rpc(last.outcome))
  /\ (Settled /\ last.fn = "cancelTask")
       => IF Is2xxJson(last.outcome) /\ ~HasError(last.outcome)
             /\ ~HasResult(last.outcome)
          THEN last.ret.ok
          ELSE last.ret = send(rpc(last.outcome))

\* What a caller can tell failures apart by: every failure is a plain Error,
\* so only its message.  The messages the client gives to a JSON-RPC error and
\* to an empty result, over every body the transport can deliver:
ProtocolFailureMessages ==
  {EMPTY_RESPONSE}
    \cup {A2AError(o.body.v.error) : o \in {x \in ClientOutcomes : HasError(x)}}

\* C14: a non-2xx response makes every client call throw the HTTP error, whose
\* message carries the status and the body read from the response, whatever
\* JSON-RPC content that body has; the message differs from every message
\* thrown for a JSON-RPC error or for an empty result.
C14_Non2xxFailsWithHttpError ==
  (Settled /\ IsNon2xx(last.outcome))
    => /\ ~last.ret.ok
       /\ "text" \in DOMAIN last.outcome
            => last.ret.message = "HTTP " \o ToString(last.outcome.status)
                                     \o ": " \o last.outcome.text
       /\ last.ret.message \notin ProtocolFailureMessages

\* a non-2xx response whose body is a JSON-RPC response with a result
C14_Witness ==
  /\ Settled
  /\ IsNon2xx(last.outcome)
  /\ last.outcome.body.syntax = "json"
  /\ "result" \in DOMAIN last.outcome.body.v
  /\ ~last.ret.ok

\* C15: every call of a client method hands exactly one request to the
\* transport, before and after it settles and whatever it settles with.
C15_OneFetchPerCall ==
  /\ Len(fetches) = Len(started)
  /\ \A n \in 1..Len(started) : fetches[n] = 1

\* a call whose exchange timed out has settled, having fetched once
C15_Witness ==
  /\ Settled
  /\ last.outcome.kind = "throw"
  /\ last.outcome.message = "The operation was aborted due to timeout"
  /\ last.call \notin pending
  /\ fetches[last.call] = 1

\* the ids an instance has sent, in the order it sent them
RECURSIVE IdsSent(_, _)
IdsSent(c, reqs) ==
  IF reqs = <<>> THEN <<>>
  ELSE (IF Head(reqs).client = c THEN <<Head(reqs).body.id>> ELSE <<>>)
       \o IdsSent(c, Tail(reqs))

\* C17: the ids one instance sends are strictly increasing, hence pairwise
\* distinct, whether its calls fail or overlap; and they depend on that
\* instance's own calls only: its k-th request carries id k whatever the other
\* instance has sent.
C17_IdsIncreasePerInstance ==
  \A c \in Clients :
    LET ids == IdsSent(c, started) IN
      /\ \A j, k \in 1..Len(ids) : j < k => ids[j] < ids[k]
      /\ \A k \in 1..Len(ids) : ids[k] = k

\* one instance has two calls in flight at once
C17_Witness ==
  \E c \in Clients :
    /\ Len(IdsSent(c, started)) = 2
    /\ Cardinality({n \in pending : started[n].client = c}) = 2

\* =========================================================================
\* extractText and extractData applied to one task
\* =========================================================================

\* ------------------------------------------------------- environment ----
\* values a member may hold: a string, truthy or empty, a number, zero or
\* not, false, null, an object
Vals(tag) == {Str(tag), Str(""), Num(7), Num(0), Bool(FALSE), Null, EmptyObject}
\* a record of the members chosen, none for a member that is left out
Absent == [t |-> "absent"]
Members(keys, pick) == [k \in {x \in keys : pick[x] # Absent} |-> pick[k]]
DataObjects ==
  {Obj(Members({"reply", "message"}, [reply |-> r, message |-> m])) :
     r \in Vals("R") \cup {Absent}, m \in Vals("B") \cup {Absent}}
DataVals == DataObjects \cup {Str("D"), Str(""), Null, Num(3), Arr(<<>>)}
ParsedValues ==
  {Obj(Members({"message", "data"}, [message |-> m, data |-> d])) :
     m \in Vals("M") \cup {Absent}, d \in DataVals \cup {Absent}}
  \cup {Str("A"), Str(""), Null, Num(0), Num(5), Bool(TRUE), Bool(FALSE),
        Arr(<<>>), Arr(<<Num(1), Null>>), Obj([other |-> Str("x")])}
\* the text of the first text part: a JSON document, a text that is not JSON,
\* the empty text
Texts == {JsonText(v) : v \in ParsedValues} \cup {RawText("plain"), RawText("")}

TextPartOf(t) == [kind |-> "text", text |-> t]
DataPart == [kind |-> "data", text |-> RawText("ignored")]
Decoy == TextPartOf(JsonText(Obj([message |-> Str("decoy")])))
Artifact(parts) == [artifactId |-> "a1", name |-> "result", parts |-> parts]
\* where the text part sits: alone, behind a part of another kind, before a
\* second text part, in an artifact followed by another one
ArtifactsWith(t) ==
  {<<Artifact(<<TextPartOf(t)>>)>>,
   <<Artifact(<<DataPart, TextPartOf(t)>>)>>,
   <<Artifact(<<TextPartOf(t), Decoy>>)>>,
   <<Artifact(<<TextPartOf(t)>>), Artifact(<<Decoy>>)>>}
\* first artifacts without a text part
ArtifactsWithout ==
  {<<>>, <<Artifact(<<>>)>>, <<Artifact(<<DataPart>>)>>,
   <<Artifact(<<DataPart>>), Artifact(<<Decoy>>)>>}
TaskWithoutArtifacts ==
  [id |-> "task-1", contextId |-> "ctx-1",
   status |-> [state |-> "working", timestamp |-> "t"], history |-> <<>>]
ExtractTasks ==
  {Task("completed", a, FALSE) : a \in ArtifactsWithout \cup UNION {ArtifactsWith(t) : t \in Texts}}
  \cup {TaskWithoutArtifacts}

\* ------------------------------------------------------------ actions ----
ExtractInit ==
  /\ GuideStart
  /\ LoopStart
  /\ ClientStart
  /\ SendIdle
  /\ SpinIdle
  /\ DemoStart
  /\ probe \in ExtractTasks
  /\ gotText = NotApplied
  /\ gotData = NotApplied

ApplyExtractText ==
  /\ ~gotText.applied
  /\ gotText' = Applied(extractText(probe))
  /\ UNCHANGED <<probe, gotData>>
  /\ UNCHANGED besidesExtract

ApplyExtractData ==
  /\ ~gotData.applied
  /\ gotData' = Applied(extractData(probe))
  /\ UNCHANGED <<probe, gotText>>
  /\ UNCHANGED besidesExtract

ExtractNext == ApplyExtractText \/ ApplyExtractData

ExtractSpec == ExtractInit /\ [][ExtractNext]_vars

\* ------------------------------------------------------ reading a task ----
HasArtifacts(t) == "artifacts" \in DOMAIN t /\ t.artifacts # <<>>
\* the first artifact has a text-kind part
HasTextPart(t) == HasArtifacts(t) /\ FindText(t.artifacts[1].parts).found
FirstText(t) == FindText(t.artifacts[1].parts).part.text
\* the first text part, when there is one, holds a JSON document
ParsesAsJson(t) == HasTextPart(t) /\ JSONparse(FirstText(t)).ok
Has(v, k) == v.t = "object" /\ k \in DOMAIN v.f
HasIn(v, k1, k2) == Has(v, k1) /\ Has(v.f[k1], k2)

\* ------------------------------------------------------------- claims ----
\* the unwrap rule with the branch chosen by the presence of the member alone
UnwrapByPresence(parsed) ==
  IF parsed.t = "string" THEN JSString(parsed.s)
  ELSE IF Has(parsed, "message") THEN String(parsed.f.message)
  ELSE IF HasIn(parsed, "data", "reply") THEN String(parsed.f.data.f.reply)
  ELSE IF HasIn(parsed, "data", "message") THEN String(parsed.f.data.f.message)
  ELSE IF Has(parsed, "data") /\ parsed.f.data.t = "string"
       THEN JSString(parsed.f.data.s)
  ELSE Pretty(parsed)

\* C18: on a text that parses, extractText returns, first match winning, the
\* parsed string itself, else its top-level `message`, else `data.reply`, else
\* `data.message`, else `data` when that is a string, else the pretty-printed
\* value; a member that is present selects its branch even when it is empty,
\* zero, false or null, and every parsed value, null, numbers and arrays
\* included, gets a result.
C18_UnwrapPriorityByPresence ==
  (gotText.applied /\ ParsesAsJson(probe) /\ Truthy(FirstText(probe)))
    => gotText.v = UnwrapByPresence(JSONparse(FirstText(probe)).v)

\* C19: extractText returns the no-response sentinel exactly when the task
\* has no artifacts or its first artifact has no text-kind part; a text part
\* whose text is not JSON, the empty text included, is returned verbatim; and
\* the artifacts after the first never change the result.
C19_SentinelIffNoTextPart ==
  gotText.applied
    => /\ (gotText.v = NO_RESPONSE) <=> ~HasTextPart(probe)
       /\ (HasTextPart(probe) /\ ~ParsesAsJson(probe))
            => gotText.v = FirstText(probe)
       /\ HasArtifacts(probe)
            => gotText.v = extractText([probe EXCEPT !.artifacts = <<probe.artifacts[1]>>])

\* C20: extractData returns the parsed value of the first text part of the
\* first artifact when that text is JSON, the text itself when it is not, and
\* null exactly when there is no text part; so it returns null on exactly the
\* tasks on which extractText returns the sentinel.
C20_DataNullIffNoTextPart ==
  /\ gotData.applied
       => /\ ParsesAsJson(probe) => gotData.v = JSONparse(FirstText(probe)).v
          /\ (HasTextPart(probe) /\ ~ParsesAsJson(probe))
               => gotData.v = Str(FirstText(probe).s)
          /\ (gotData.v = Null) <=> ~HasTextPart(probe)
  /\ (gotData.applied /\ gotText.applied)
       => ((gotData.v = Null) <=> (gotText.v = NO_RESPONSE))

\* =========================================================================
\* send and sendText against a counterpart that echoes the text it received
\* =========================================================================

\* ------------------------------------------------------- environment ----
TaskStates == {"submitted", "working", "completed", "failed", "canceled"}
\* an optional argument: left out or given
NotGiven == [given |-> FALSE]
Given(x) == [given |-> TRUE, v |-> x]
\* contextId: left out, an id, the empty string
CtxOptions == {NotGiven, [given |-> TRUE, id |-> "ctx-1"], [given |-> TRUE, id |-> ""]}
\* params: left out, JSON objects, and objects holding values JSON cannot write
ParamsOptions ==
  {NotGiven, Given(EmptyObject), Given(Obj([name |-> Str("demo")])),
   Given(Obj([replicas |-> Num(3), tags |-> Arr(<<Str("a"), Null>>)])),
   Given(Obj([spec |-> Obj([image |-> Str("nginx"), env |-> EmptyObject])])),
   Given(Obj([name |-> Str("demo"), image |-> Undefined])),
   Given(Obj([ratio |-> NaN]))}
SendArgs ==
  {[fn |-> "send", operation |-> op, params |-> p, ctx |-> c, state |-> st] :
     op \in {"namespace_list", ""}, p \in ParamsOptions, c \in CtxOptions,
     st \in TaskStates}
  \cup {[fn |-> "sendText", text |-> t, ctx |-> c, state |-> st] :
          t \in {"hello", ""}, c \in CtxOptions, st \in TaskStates}

\* the counterpart: a task in the given state whose first artifact has the
\* received message text as its only part
EchoTask(req, state) ==
  Task(state, <<Artifact(<<TextPartOf(req.params.message.parts[1].text)>>)>>, FALSE)
EchoOutcome(req, state) ==
  [kind |-> "response", ok |-> TRUE, status |-> 200,
   body |-> JsonText([jsonrpc |-> "2.0", id |-> req.id, result |-> EchoTask(req, state)])]

\* ------------------------------------------------------------ actions ----
SendInit ==
  /\ GuideStart
  /\ LoopStart
  /\ ClientStart
  /\ ExtractIdle
  /\ SpinIdle
  /\ DemoStart
  /\ sendArg \in SendArgs
  /\ sendStage = "idle"
  /\ sendReq = None
  /\ sendRet = None
  /\ sendData = None
  /\ sendResult = None

\* send(operation, params, contextId) up to its await
StartSend ==
  /\ sendStage = "idle"
  /\ sendArg.fn = "send"
  /\ sendReq' = Envelope("message/send",
                         withContextId(sendParams(sendArg.operation,
                                                  paramsOrDefault(sendArg.params)),
                                       sendArg.ctx), 1)
  /\ sendStage' = "sent"
  /\ UNCHANGED <<sendArg, sendRet, sendData, sendResult>>
  /\ UNCHANGED besidesSend

\* sendText(text, contextId) up to its await
StartSendText ==
  /\ sendStage = "idle"
  /\ sendArg.fn = "sendText"
  /\ sendReq' = Envelope("message/send",
                         withContextId(sendTextParams(sendArg.text), sendArg.ctx), 1)
  /\ sendStage' = "sent"
  /\ UNCHANGED <<sendArg, sendRet, sendData, sendResult>>
  /\ UNCHANGED besidesSend

\* the counterpart answers and the call returns
Echoed ==
  /\ sendStage = "sent"
  /\ sendRet' = Handle(sendArg.fn, rpc(EchoOutcome(sendReq, sendArg.state)))
  /\ sendStage' = "returned"
  /\ UNCHANGED <<sendArg, sendReq, sendData, sendResult>>
  /\ UNCHANGED besidesSend

\* the caller decodes the task; for send the caller is executeCall
Decoded ==
  /\ sendStage = "returned"
  /\ sendRet.ok
  /\ sendData' = extractData(sendRet.v)
  /\ sendResult' = IF sendArg.fn = "send" THEN executeCall(sendRet) ELSE None
  /\ sendStage' = "decoded"
  /\ UNCHANGED <<sendArg, sendReq, sendRet>>
  /\ UNCHANGED besidesSend

SendNext == StartSend \/ StartSendText \/ Echoed \/ Decoded

SendSpec == SendInit /\ [][SendNext]_vars

\* ------------------------------------------------------------- claims ----
\* a value JSON can write as it is
RECURSIVE IsJson(_)
IsJson(v) ==
  CASE v.t \in {"null", "string", "number", "boolean"} -> TRUE
    [] v.t = "object" -> \A k \in DOMAIN v.f : IsJson(v.f[k])
    [] v.t = "array" -> \A k \in 1..Len(v.a) : IsJson(v.a[k])
    [] OTHER -> FALSE

OneUserTextPart(req) ==
  /\ req.method = "message/send"
  /\ req.params.message.role = "user"
  /\ Len(req.params.message.parts) = 1
  /\ req.params.message.parts[1].kind = "text"

\* C23 as stated: the params carry a `contextId` exactly when the caller gave
\* one, with the value given; the message has role user and one text part.
C23_ContextIdIffGiven ==
  sendStage # "idle"
    => /\ "contextId" \in DOMAIN sendReq.params <=> sendArg.ctx.given
       /\ "contextId" \in DOMAIN sendReq.params
            => sendReq.params.contextId = sendArg.ctx.id
       /\ OneUserTextPart(sendReq)

\* C23 amended: the params carry a `contextId` exactly when the caller gave
\* one that is not the empty string, with the value given; the message has
\* role user and one text part.
C23_ContextIdIffGivenNonEmpty ==
  sendStage # "idle"
    => /\ "contextId" \in DOMAIN sendReq.params
            <=> (sendArg.ctx.given /\ sendArg.ctx.id # "")
       /\ "contextId" \in DOMAIN sendReq.params
            => sendReq.params.contextId = sendArg.ctx.id
       /\ OneUserTextPart(sendReq)

\* sendText was given a contextId and the request carries it
C23_Witness ==
  /\ sendStage = "sent"
  /\ sendArg.fn = "sendText"
  /\ sendArg.ctx.given
  /\ "contextId" \in DOMAIN sendReq.params
  /\ sendReq.params.contextId = "ctx-1"

\* =========================================================================
\* The spinners: startSpinner at its two call sites and withSpinner
\* =========================================================================
SpinnerInit ==
  /\ GuideStart
  /\ LoopStart
  /\ ClientStart
  /\ ExtractIdle
  /\ SendIdle
  /\ DemoStart
  /\ isTTY \in BOOLEAN
  /\ NoTimers

\* the id setInterval hands out next
NextTimer == Len(spinLog) + 1

\* startSpinner(text): no timer and a no-op stop unless stdout is a terminal,
\* else setInterval and a stop function that clears it
startSpinner(site) ==
  /\ spinSite = "none"
  /\ Len(spinLog) < MaxSpins
  /\ spinSite' = site
  /\ IF isTTY
     THEN timers' = timers \cup {NextTimer} /\ spinTimer' = NextTimer
     ELSE timers' = timers /\ spinTimer' = 0
  /\ UNCHANGED <<isTTY, spinLog>>
  /\ UNCHANGED besidesSpin

\* stop(), or clearInterval(id): clearing timer 0 clears nothing
Cleared == timers \ {spinTimer}
Ended(site, outcome, left) == [site |-> site, outcome |-> outcome, running |-> left]

\* executeCall: const stop = startSpinner(...); then a2aClient.send is awaited
ExecuteCallStarts ==
  /\ spinSite = "none"
  /\ startSpinner("executeCall")
\* try { await a2aClient.send(...); stop(); ... }
SendReturns ==
  /\ spinSite = "executeCall"
  /\ timers' = Cleared
  /\ spinLog' = Append(spinLog, Ended("executeCall", "returned", timers'))
  /\ spinSite' = "none"
  /\ spinTimer' = 0
  /\ UNCHANGED isTTY
  /\ UNCHANGED besidesSpin
\* catch (e) { stop(); ... }
SendThrows ==
  /\ spinSite = "executeCall"
  /\ timers' = Cleared
  /\ spinLog' = Append(spinLog, Ended("executeCall", "threw", timers'))
  /\ spinSite' = "none"
  /\ spinTimer' = 0
  /\ UNCHANGED isTTY
  /\ UNCHANGED besidesSpin

\* runTurn: const stop = startSpinner(...); then messages.create is awaited
RunTurnStarts ==
  /\ spinSite = "none"
  /\ startSpinner("runTurn")
\* const response = await anthropic.messages.create(...); stop();
CreateReturns ==
  /\ spinSite = "runTurn"
  /\ timers' = Cleared
  /\ spinLog' = Append(spinLog, Ended("runTurn", "returned", timers'))
  /\ spinSite' = "none"
  /\ spinTimer' = 0
  /\ UNCHANGED isTTY
  /\ UNCHANGED besidesSpin
\* the await rejects: there is no try around it, stop() is not reached and
\* the error leaves runTurn
CreateThrows ==
  /\ spinSite = "runTurn"
  /\ timers' = timers
  /\ spinLog' = Append(spinLog, Ended("runTurn", "threw", timers'))
  /\ spinSite' = "none"
  /\ spinTimer' = 0
  /\ UNCHANGED isTTY
  /\ UNCHANGED besidesSpin

\* withSpinner(label, fn): const id = setInterval(...), whatever stdout is
WithSpinnerStarts ==
  /\ spinSite = "none"
  /\ Len(spinLog) < MaxSpins
  /\ spinSite' = "withSpinner"
  /\ timers' = timers \cup {NextTimer}
  /\ spinTimer' = NextTimer
  /\ UNCHANGED <<isTTY, spinLog>>
  /\ UNCHANGED besidesSpin
\* try { const result = await fn(); clearInterval(id); ...; return result; }
FnReturns ==
  /\ spinSite = "withSpinner"
  /\ timers' = Cleared
  /\ spinLog' = Append(spinLog, Ended("withSpinner", "returned", timers'))
  /\ spinSite' = "none"
  /\ spinTimer' = 0
  /\ UNCHANGED isTTY
  /\ UNCHANGED besidesSpin
\* catch (e) { clearInterval(id); ...; throw e; }
FnThrows ==
  /\ spinSite = "withSpinner"
  /\ timers' = Cleared
  /\ spinLog' = Append(spinLog, Ended("withSpinner", "threw", timers'))
  /\ spinSite' = "none"
  /\ spinTimer' = 0
  /\ UNCHANGED isTTY
  /\ UNCHANGED besidesSpin

SpinnerNext ==
  \/ ExecuteCallStarts
  \/ SendReturns
  \/ SendThrows
  \/ RunTurnStarts
  \/ CreateReturns
  \/ CreateThrows
  \/ WithSpinnerStarts
  \/ FnReturns
  \/ FnThrows

SpinnerSpec == SpinnerInit /\ [][SpinnerNext]_vars

\* C28: once the awaited call of a decorated operation has ended, by
\* returning or by throwing, the timer of its spinner is cleared: no timer is
\* running while no decorated call is pending, and none was running when any
\* of them ended.
C28_NoTimerOutlivesItsCall ==
  /\ spinSite = "none" => timers = {}
  /\ \A k \in 1..Len(spinLog) : spinLog[k].running = {}

\* =========================================================================
\* demo.ts: the interactive demo, one menu selection per step
\* =========================================================================
\* What client.send does with one operation: it throws, or it returns a task
DemoTask(state, text) == Task(state, <<Artifact(<<TextPartOf(text)>>)>>, FALSE)
DemoTexts ==
  {JsonText(Obj([id |-> Str("ns-1"), shortId |-> Str("ab12"), name |-> Str("demo")])),
   JsonText(Obj([deploymentId |-> Str("dep-1"), id |-> Str("row-9"),
                 status |-> Str("pending")])),
   JsonText(EmptyObject),
   JsonText(Arr(<<Obj([id |-> Str("id-2"), name |-> Str("second")])>>)),
   JsonText(Arr(<<Null>>)),
   JsonText(Arr(<<>>)),
   RawText("plain")}
DemoSendResults ==
  {Throw(A2AError(RpcError))}
  \cup {Return(DemoTask("completed", t)) : t \in DemoTexts}
  \cup {Return(DemoTask("failed", RawText("plain"))),
        Return(Task("completed", <<>>, FALSE))}

\* what the user types at a prompt
TypedIds == {"", "typed-id"}
Confirmations == {"y", "Y", "n"}
TypedNumbers == {"3", "abc"}

\* parseInt of what the user may type
parseInt(str) == IF str = "3" THEN Num(3) ELSE NaN
\* a || b on numbers: NaN and 0 are falsy
OrElse(n, dflt) == IF n = NaN \/ n = Num(0) THEN dflt ELSE n
\* confirm.toLowerCase()
toLowerCase(str) == IF str = "Y" THEN "y" ELSE str

\* mutant: every session id counts as selected
SelectedAlways(id) == TRUE
\* !!id for a session id: null and "" are falsy
Selected(id) == id # Null /\ id # JSString("")
\* the JSON value of a session id inside params
IdValue(id) == IF id = Null THEN Null ELSE Str(id.s)
\* String(x) for a member that may be undefined
StringOf(g) == IF g.def THEN String(g.v) ELSE JSString("undefined")
\* a ?? b
Coalesce(a, b) == IF a.def /\ a.v # Null THEN a ELSE b

\* mutant: a failed call hands back the error message as data
callErrorAsData(sent) ==
  IF sent.ok THEN extractData(sent.v) ELSE Str(sent.message)
\* call(operation, params): the data of the task, or null when client.send
\* threw
call(sent) ==
  IF sent.ok THEN extractData(sent.v) ELSE Null

Request(operation, params) == [operation |-> operation, params |-> params]
NotSent == [sent |-> FALSE]
\* the record of one selection: the session ids it found, the remote calls it
\* issued, what client.send did, what call returned, whether the handler threw
Did(fn, calls, sent, data, threw) ==
  [fn |-> fn, nsBefore |-> currentNamespaceId, depBefore |-> currentDeploymentId,
   calls |-> calls, sent |-> sent, data |-> data, threw |-> threw]
\* the handler returns, or stops at a prompt, before any call
NoCallMade(fn) == demoLast' = Did(fn, <<>>, NotSent, NotApplied, FALSE)
\* the handler makes its one call and does nothing with the session
Called(fn, operation, params, sent) ==
  demoLast' = Did(fn, <<Request(operation, params)>>, sent, Applied(call(sent)), FALSE)
DeploymentParams == Obj([deploymentId |-> IdValue(currentDeploymentId)])
NamespaceParams == Obj([namespaceId |-> IdValue(currentNamespaceId)])

\* for (const x of data) { ... x.status ... }: a null element throws a TypeError
ThrowsOnElement(data) == \E k \in 1..Len(data.a) : data.a[k] = Null
IsArray(data) == data.t = "array"

CheckBalance ==
  /\ running
  /\ \E sent \in DemoSendResults :
       Called("checkBalance", "credits_balance", EmptyObject, sent)
  /\ UNCHANGED <<currentNamespaceId, currentDeploymentId, running>>
  /\ UNCHANGED besidesDemo

ListCharts ==
  /\ running
  /\ \E sent \in DemoSendResults :
       LET data == call(sent) IN
       demoLast' = Did("listCharts", <<Request("chart_list", EmptyObject)>>, sent,
                       Applied(data), IsTruthy(data) /\ IsArray(data) /\ ThrowsOnElement(data))
  /\ UNCHANGED <<currentNamespaceId, currentDeploymentId, running>>
  /\ UNCHANGED besidesDemo

CreateNamespace ==
  /\ running
  /\ \E sent \in DemoSendResults, coresStr \in TypedNumbers :
       LET params == Obj([name |-> Str("demo"),
                          allocatedCores |-> OrElse(parseInt(coresStr), Num(2))])
           data == call(sent)
       IN /\ demoLast' = Did("createNamespace", <<Request("namespace_create", params)>>,
                             sent, Applied(data), FALSE)
          /\ currentNamespaceId' = IF IsTruthy(data) THEN StringOf(Get(data, "id"))
                                   ELSE currentNamespaceId
  /\ UNCHANGED <<currentDeploymentId, running>>
  /\ UNCHANGED besidesDemo

ListNamespaces ==
  /\ running
  /\ \E sent \in DemoSendResults :
       LET data == call(sent)
           listed == IsTruthy(data) /\ IsArray(data) /\ Len(data.a) > 0
           threw == listed /\ ThrowsOnElement(data)
       IN /\ demoLast' = Did("listNamespaces", <<Request("namespace_list", EmptyObject)>>,
                             sent, Applied(data), threw)
          /\ currentNamespaceId' =
               IF listed /\ ~threw /\ ~Selected(currentNamespaceId)
               THEN StringOf(Get(data.a[1], "id")) ELSE currentNamespaceId
  /\ UNCHANGED <<currentDeploymentId, running>>
  /\ UNCHANGED besidesDemo

GetNamespace ==
  /\ running
  /\ \E sent \in DemoSendResults, typed \in TypedIds :
       LET id == IF Selected(currentNamespaceId) THEN currentNamespaceId
                 ELSE JSString(typed)
       IN /\ currentNamespaceId' = id
          /\ demoLast' = Did("getNamespace",
                             <<Request("namespace_get", Obj([namespaceId |-> IdValue(id)]))>>,
                             sent, Applied(call(sent)), FALSE)
  /\ UNCHANGED <<currentDeploymentId, running>>
  /\ UNCHANGED besidesDemo

DeleteNamespace ==
  /\ running
  /\ \E sent \in DemoSendResults, confirm \in Confirmations :
       IF ~Selected(currentNamespaceId) \/ toLowerCase(confirm) # "y"
       THEN /\ NoCallMade("deleteNamespace")
            /\ UNCHANGED <<currentNamespaceId, currentDeploymentId>>
       ELSE /\ Called("deleteNamespace", "namespace_delete", NamespaceParams, sent)
            /\ currentNamespaceId' = Null
            /\ currentDeploymentId' = Null
  /\ UNCHANGED running
  /\ UNCHANGED besidesDemo

CreateDeployment ==
  /\ running
  /\ \E sent \in DemoSendResults, portStr \in TypedNumbers :
       IF ~Selected(currentNamespaceId)
       THEN /\ NoCallMade("createDeployment")
            /\ UNCHANGED currentDeploymentId
       ELSE LET params == Obj([namespaceId |-> IdValue(currentNamespaceId),
                               name |-> Str("web"), image |-> Str("nginx:alpine"),
                               chartType |-> Str("web"),
                               port |-> OrElse(parseInt(portStr), Num(8080))])
                data == call(sent)
            IN /\ demoLast' = Did("createDeployment",
                                  <<Request("deploy_create", params)>>,
                                  sent, Applied(data), FALSE)
               /\ currentDeploymentId' =
                    IF IsTruthy(data)
                    THEN StringOf(Coalesce(Get(data, "deploymentId"), Get(data, "id")))
                    ELSE currentDeploymentId
  /\ UNCHANGED <<currentNamespaceId, running>>
  /\ UNCHANGED besidesDemo

DeployStatus ==
  /\ running
  /\ \E sent \in DemoSendResults, typed \in TypedIds :
       LET id == IF Selected(currentDeploymentId) THEN currentDeploymentId
                 ELSE JSString(typed)
       IN /\ currentDeploymentId' = id
          /\ demoLast' = Did("deployStatus",
                             <<Request("deploy_status", Obj([deploymentId |-> IdValue(id)]))>>,
                             sent, Applied(call(sent)), FALSE)
  /\ UNCHANGED <<currentNamespaceId, running>>
  /\ UNCHANGED besidesDemo

ListDeployments ==
  /\ running
  /\ \E sent \in DemoSendResults :
       IF ~Selected(currentNamespaceId)
       THEN /\ NoCallMade("listDeployments")
            /\ UNCHANGED currentDeploymentId
       ELSE LET data == call(sent)
                listed == IsTruthy(data) /\ IsArray(data) /\ Len(data.a) > 0
                threw == listed /\ ThrowsOnElement(data)
            IN /\ demoLast' = Did("listDeployments",
                                  <<Request("deploy_list", NamespaceParams)>>,
                                  sent, Applied(data), threw)
               /\ currentDeploymentId' =
                    IF listed /\ ~threw /\ ~Selected(currentDeploymentId)
                    THEN StringOf(Get(data.a[1], "id")) ELSE currentDeploymentId
  /\ UNCHANGED <<currentNamespaceId, running>>
  /\ UNCHANGED besidesDemo

\* if (!currentDeploymentId) { error(...); return; } ... await call(operation,
\* { deploymentId: currentDeploymentId })
WithDeployment(fn, operation, sent) ==
  IF ~Selected(currentDeploymentId) THEN NoCallMade(fn)
  ELSE Called(fn, operation, DeploymentParams, sent)

DeployLogs ==
  /\ running
  /\ \E sent \in DemoSendResults : WithDeployment("deployLogs", "deploy_logs", sent)
  /\ UNCHANGED <<currentNamespaceId, currentDeploymentId, running>>
  /\ UNCHANGED besidesDemo

DeployDiagnose ==
  /\ running
  /\ \E sent \in DemoSendResults : WithDeployment("deployDiagnose", "deploy_diagnose", sent)
  /\ UNCHANGED <<currentNamespaceId, currentDeploymentId, running>>
  /\ UNCHANGED besidesDemo

DeployScale ==
  /\ running
  /\ \E sent \in DemoSendResults, replicasStr \in TypedNumbers :
       LET replicas == parseInt(replicasStr) IN
       IF ~Selected(currentDeploymentId) \/ replicas = NaN
       THEN NoCallMade("deployScale")
       ELSE Called("deployScale", "deploy_scale",
                   Obj([deploymentId |-> IdValue(currentDeploymentId),
                        replicas |-> replicas]), sent)
  /\ UNCHANGED <<currentNamespaceId, currentDeploymentId, running>>
  /\ UNCHANGED besidesDemo

DeployEvents ==
  /\ running
  /\ \E sent \in DemoSendResults : WithDeployment("deployEvents", "deploy_events", sent)
  /\ UNCHANGED <<currentNamespaceId, currentDeploymentId, running>>
  /\ UNCHANGED besidesDemo

DeployStop ==
  /\ running
  /\ \E sent \in DemoSendResults : WithDeployment("deployStop", "deploy_stop", sent)
  /\ UNCHANGED <<currentNamespaceId, currentDeploymentId, running>>
  /\ UNCHANGED besidesDemo

DeployRestart ==
  /\ running
  /\ \E sent \in DemoSendResults : WithDeployment("deployRestart", "deploy_restart", sent)
  /\ UNCHANGED <<currentNamespaceId, currentDeploymentId, running>>
  /\ UNCHANGED besidesDemo

DeployDelete ==
  /\ running
  /\ \E sent \in DemoSendResults, confirm \in Confirmations :
       IF ~Selected(currentDeploymentId) \/ toLowerCase(confirm) # "y"
       THEN /\ NoCallMade("deployDelete")
            /\ UNCHANGED currentDeploymentId
       ELSE /\ Called("deployDelete", "deploy_delete", DeploymentParams, sent)
            /\ currentDeploymentId' = Null
  /\ UNCHANGED <<currentNamespaceId, running>>
  /\ UNCHANGED besidesDemo

\* a choice that is no key of MENU: error("Invalid selection")
InvalidSelection ==
  /\ running
  /\ NoCallMade("invalid")
  /\ UNCHANGED <<currentNamespaceId, currentDeploymentId, running>>
  /\ UNCHANGED besidesDemo

\* choice "q": rl.close(); process.exit(0)
Quit ==
  /\ running
  /\ running' = FALSE
  /\ NoCallMade("quit")
  /\ UNCHANGED <<currentNamespaceId, currentDeploymentId>>
  /\ UNCHANGED besidesDemo

DemoNext ==
  \/ CheckBalance
  \/ ListCharts
  \/ CreateNamespace
  \/ ListNamespaces
  \/ GetNamespace
  \/ DeleteNamespace
  \/ CreateDeployment
  \/ DeployStatus
  \/ ListDeployments
  \/ DeployLogs
  \/ DeployDiagnose
  \/ DeployScale
  \/ DeployEvents
  \/ DeployStop
  \/ DeployRestart
  \/ DeployDelete
  \/ InvalidSelection
  \/ Quit

DemoSpec == Init /\ [][DemoNext]_vars

NeedsDeployment ==
  {"deployLogs", "deployDiagnose", "deployScale", "deployEvents", "deployStop",
   "deployRestart", "deployDelete"}
NeedsNamespace == {"deleteNamespace", "createDeployment", "listDeployments"}
\* the latest selection made a call that failed
CallFailed == "ok" \in DOMAIN demoLast.sent /\ ~demoLast.sent.ok
\* the latest selection made a call that returned data
ReturnedData ==
  /\ "ok" \in DOMAIN demoLast.sent
  /\ demoLast.sent.ok
  /\ demoLast.data.applied
  /\ IsTruthy(demoLast.data.v)

\* C29: a selection that needs a deployment, or a namespace, issues no remote
\* call when the session id it needs was null; a call that failed gave a null
\* result and the menu loop goes on, which only the choice to quit ends; after
\* Create namespace and Create deployment the session ids are the ones found
\* unless the call returned data.
C29_InteractiveDemo ==
  /\ (demoLast.fn \in NeedsDeployment /\ demoLast.depBefore = Null)
       => demoLast.calls = <<>>
  /\ (demoLast.fn \in NeedsNamespace /\ demoLast.nsBefore = Null)
       => demoLast.calls = <<>>
  /\ CallFailed => (demoLast.data = Applied(Null) /\ running)
  /\ ~running => demoLast.fn = "quit"
  /\ (demoLast.fn \in {"createNamespace", "createDeployment"} /\ ~ReturnedData)
       => /\ currentNamespaceId = demoLast.nsBefore
          /\ currentDeploymentId = demoLast.depBefore

\* Deployment logs was chosen with no deployment selected, after a namespace
\* had been selected
C29_Witness ==
  /\ demoLast.fn = "deployLogs"
  /\ demoLast.depBefore = Null
  /\ demoLast.nsBefore # Null
  /\ demoLast.calls = <<>>
  /\ running
\* Create deployment made its call, the call failed
C29_WitnessFailedCreate ==
  /\ demoLast.fn = "createDeployment"
  /\ CallFailed
  /\ Len(demoLast.calls) = 1
  /\ currentDeploymentId = demoLast.depBefore
  /\ running
\* Create namespace made its call and selected the namespace it returned
C29_WitnessCreated ==
  /\ demoLast.fn = "createNamespace"
  /\ ReturnedData
  /\ demoLast.nsBefore = Null
  /\ currentNamespaceId = JSString("ns-1")

\* =========================================================================
\* The guided demo: fourteen steps, one after the other
\* =========================================================================
LastStep == 14
GuidedSendResults ==
  DemoSendResults
  \cup {Return(DemoTask("completed", JsonText(Obj([id |-> Str("")])))),
        Return(DemoTask("completed", JsonText(Obj([balance |-> Str("9.5")]))))}
\* the answer to "delete the resources? (Y/n)"
CleanupAnswers == {"", "n", "N"}
lower(str) == IF str = "N" THEN "n" ELSE str

\* the operations the function of step k sends, in order
StepOperations(k, doCleanup) ==
  CASE k = 1 -> <<"credits_balance">>
    [] k = 2 -> <<"chart_list">>
    [] k = 3 -> <<"namespace_create">>
    [] k = 4 -> <<"deploy_preflight">>
    [] k = 5 -> <<"deploy_create">>
    [] k = 6 -> <<"deploy_status">>
    [] k = 7 -> <<"deploy_scale">>
    [] k = 8 -> <<"deploy_update_env">>
    [] k = 9 -> <<"deploy_diagnose">>
    [] k = 10 -> <<"deploy_events">>
    [] k = 11 -> <<"deploy_stop", "deploy_restart">>
    [] k = 12 -> <<"deploy_list">>
    [] k = 13 -> IF lower(doCleanup) # "n"
                 THEN <<"deploy_delete", "namespace_delete">> ELSE <<>>
    [] k = 14 -> <<"credits_balance">>
\* the session ids an operation's params carry
StepParams(operation) ==
  CASE operation \in {"credits_balance", "chart_list", "namespace_create"} ->
         [namespaceId |-> Undefined, deploymentId |-> Undefined]
    [] operation \in {"deploy_preflight", "deploy_create", "deploy_list",
                      "namespace_delete"} ->
         [namespaceId |-> Str(namespaceId.s), deploymentId |-> Undefined]
    [] OTHER ->
         [namespaceId |-> Undefined, deploymentId |-> Str(deploymentId.s)]

StepStarted(k) == [step |-> k, event |-> "started"]
StepFinished(k) == [step |-> k, event |-> "finished"]
CallSent(k, operation) ==
  [step |-> k, event |-> "sent", operation |-> operation, ids |-> StepParams(operation)]
Thrown(k, what) == [step |-> k, event |-> "thrown", what |-> what]
Exit(n) == [code |-> n]

\* step(num, ...): the header, "Press Enter to execute...", then fn() begins
BeginStep ==
  /\ stage = "ready"
  /\ stepNo <= LastStep
  /\ \E doCleanup \in CleanupAnswers : plan' = StepOperations(stepNo, doCleanup)
  /\ stage' = "running"
  /\ guideLog' = Append(guideLog, StepStarted(stepNo))
  /\ UNCHANGED <<stepNo, awaiting, balance, namespaceId, deploymentId, exitCode>>
  /\ UNCHANGED besidesGuide

\* callAndShow(operation, params): client.send(operation, params) is called
\* and awaited
SendOperation ==
  /\ stage = "running"
  /\ ~awaiting
  /\ plan # <<>>
  /\ awaiting' = TRUE
  /\ guideLog' = Append(guideLog, CallSent(stepNo, Head(plan)))
  /\ UNCHANGED <<stepNo, stage, plan, balance, namespaceId, deploymentId, exitCode>>
  /\ UNCHANGED besidesGuide

\* for (const chart of data) { ... chart.type ... } of step 2
StepThrowsOn(k, data) ==
  k = 2 /\ IsTruthy(data) /\ IsArray(data) /\ ThrowsOnElement(data)

\* mutant: an error in a step is reported and the walk goes on
StepFailsContinues(what) ==
  /\ guideLog' = Append(guideLog, Thrown(stepNo, what))
  /\ awaiting' = FALSE
  /\ plan' = Tail(plan)
  /\ UNCHANGED <<stepNo, stage, balance, namespaceId, deploymentId, exitCode>>
\* an error leaves the step and main: main().catch(...) prints it and calls
\* process.exit(1)
StepFails(what) ==
  /\ guideLog' = Append(guideLog, Thrown(stepNo, what))
  /\ awaiting' = FALSE
  /\ stage' = "exited"
  /\ exitCode' = Exit(1)
  /\ UNCHANGED <<stepNo, plan, balance, namespaceId, deploymentId>>

\* client.send returns a task: callAndShow returns its data and the step uses it
SendReturned ==
  /\ awaiting
  /\ \E sent \in {r \in GuidedSendResults : r.ok} :
       LET data == extractData(sent.v) IN
       IF StepThrowsOn(stepNo, data) THEN StepFails("TypeError")
       ELSE /\ awaiting' = FALSE
            /\ plan' = Tail(plan)
            /\ balance' = IF stepNo = 1 /\ IsTruthy(data)
                          THEN StringOf(Get(data, "balance")) ELSE balance
            /\ namespaceId' = IF stepNo = 3 /\ IsTruthy(data)
                              THEN StringOf(Get(data, "id")) ELSE namespaceId
            /\ deploymentId' =
                 IF stepNo = 5 /\ IsTruthy(data)
                 THEN StringOf(Coalesce(Get(data, "deploymentId"), Get(data, "id")))
                 ELSE deploymentId
            /\ UNCHANGED <<stepNo, stage, exitCode, guideLog>>
  /\ UNCHANGED besidesGuide

\* client.send throws: nothing in callAndShow, the step or main catches
SendThrew ==
  /\ awaiting
  /\ \E sent \in {r \in GuidedSendResults : ~r.ok} : StepFails("client error")
  /\ UNCHANGED besidesGuide

\* fn() has returned: step returns
FinishStep ==
  /\ stage = "running"
  /\ ~awaiting
  /\ plan = <<>>
  /\ guideLog' = Append(guideLog, StepFinished(stepNo))
  /\ stage' = IF stepNo \in {3, 5} THEN "guard"
              ELSE IF stepNo = LastStep THEN "complete" ELSE "ready"
  /\ stepNo' = IF stepNo \in {3, 5, LastStep} THEN stepNo ELSE stepNo + 1
  /\ UNCHANGED <<plan, awaiting, balance, namespaceId, deploymentId, exitCode>>
  /\ UNCHANGED besidesGuide

\* mutant: the walk goes on whatever the id is
GuardAlwaysPasses(id) ==
  /\ stage' = "ready"
  /\ stepNo' = stepNo + 1
  /\ UNCHANGED exitCode
\* if (!id) { error(...); rl.close(); process.exit(1); }
Guard(id) ==
  IF id = JSString("")
  THEN stage' = "exited" /\ exitCode' = Exit(1) /\ UNCHANGED stepNo
  ELSE stage' = "ready" /\ stepNo' = stepNo + 1 /\ UNCHANGED exitCode

\* if (!namespaceId) ... after step 3
CheckNamespace ==
  /\ stage = "guard"
  /\ stepNo = 3
  /\ Guard(namespaceId)
  /\ UNCHANGED <<plan, awaiting, balance, namespaceId, deploymentId, guideLog>>
  /\ UNCHANGED besidesGuide

\* if (!deploymentId) ... after step 5
CheckDeployment ==
  /\ stage = "guard"
  /\ stepNo = 5
  /\ Guard(deploymentId)
  /\ UNCHANGED <<plan, awaiting, balance, namespaceId, deploymentId, guideLog>>
  /\ UNCHANGED besidesGuide

\* header("Demo Complete!"); ...; rl.close(); process.exit(0)
DemoComplete ==
  /\ stage = "complete"
  /\ stage' = "exited"
  /\ exitCode' = Exit(0)
  /\ UNCHANGED <<stepNo, plan, awaiting, balance, namespaceId, deploymentId, guideLog>>
  /\ UNCHANGED besidesGuide

GuidedNext ==
  \/ BeginStep
  \/ SendOperation
  \/ SendReturned
  \/ SendThrew
  \/ FinishStep
  \/ CheckNamespace
  \/ CheckDeployment
  \/ DemoComplete

GuidedSpec == Init /\ [][GuidedNext]_vars

\* the starts and ends of steps, in the order they happened
StepEvents == SelectSeq(guideLog, LAMBDA e : e.event \in {"started", "finished"})
HasStarted(k) == \E j \in 1..Len(guideLog) : guideLog[j] = StepStarted(k)
HasFinished(k) == \E j \in 1..Len(guideLog) : guideLog[j] = StepFinished(k)
\* the step that was running when guideLog[j] was written
RunningAt(j) ==
  LET before == SelectSeq(SubSeq(guideLog, 1, j - 1),
                          LAMBDA e : e.event \in {"started", "finished"})
  IN IF before # <<>> /\ before[Len(before)].event = "started"
     THEN before[Len(before)].step ELSE 0

\* C30: the steps start in the order 1, 2, ..., each after the one before it
\* has finished, and every call is sent by the step that is running; a step
\* from 4 on has started only with a non-empty namespace id and a step from 6
\* on only with a non-empty deployment id, and with the id empty after step 3
\* or step 5 the demo exits with code 1 or not at all; once a client error was
\* thrown in a step the exit code is 1 and the log has no later entry.
C30_GuidedDemo ==
  /\ \A j \in 1..Len(StepEvents) :
       StepEvents[j] = IF j % 2 = 1 THEN StepStarted((j + 1) \div 2)
                       ELSE StepFinished(j \div 2)
  /\ \A j \in 1..Len(guideLog) :
       guideLog[j].event = "sent" => RunningAt(j) = guideLog[j].step
  /\ \A k \in 4..LastStep : HasStarted(k) => namespaceId # JSString("")
  /\ \A k \in 6..LastStep : HasStarted(k) => deploymentId # JSString("")
  /\ (HasFinished(3) /\ namespaceId = JSString("") /\ exitCode # None)
       => exitCode = Exit(1)
  /\ (HasFinished(5) /\ deploymentId = JSString("") /\ exitCode # None)
       => exitCode = Exit(1)
  /\ \A j \in 1..Len(guideLog) :
       guideLog[j].event = "thrown" => (exitCode = Exit(1) /\ j = Len(guideLog))

\* the restart call of step 11 threw after the stop call had returned: ten
\* steps are finished, the demo has exited with code 1
C30_Witness ==
  /\ Len(guideLog) >= 1
  /\ guideLog[Len(guideLog)] = Thrown(11, "client error")
  /\ Len(SelectSeq(guideLog, LAMBDA e : e.event = "sent" /\ e.step = 11)) = 2
  /\ HasFinished(10)
  /\ exitCode = Exit(1)
\* step 3 returned no namespace id and the demo stopped there
C30_WitnessNoNamespace ==
  /\ HasFinished(3)
  /\ namespaceId = JSString("")
  /\ exitCode = Exit(1)
  /\ ~HasStarted(4)
\* all fourteen steps ran and the demo exited with code 0
C30_WitnessComplete ==
  /\ HasFinished(LastStep)
  /\ exitCode = Exit(0)

====
